---------------------------- MODULE Spec2Model ----------------------------
(***************************************************************************)
(* A model of the hybrid re-ranking engine of the Mono-Log search server   *)
(* (src/search_server/server.py, src/search_server/brand_mapping_data.py). *)
(*                                                                         *)
(* Representation.                                                         *)
(*  - A string is a sequence of character codes: 0 is the space, 1..26 are *)
(*    the letters a..z, 31..56 the letters A..Z, 61..69 uncased characters *)
(*    (kanji), 70..79 the digits '0'..'9', 80 is '-', 81 is '.'.           *)
(*  - An Optional[str] is a record [set, text]; None is Absent.            *)
(*  - A float bonus or weight is an integer number of thousandths (0.15 is *)
(*    150); a threshold read with int() is the integer itself (a percent). *)
(*  - A ratio or a score is an exact fraction [num, den]; the rounding of  *)
(*    binary floating point is not modelled.                               *)
(***************************************************************************)
EXTENDS Integers, Sequences, FiniteSets, TLC

Min(x, y) == IF x <= y THEN x ELSE y
Max(x, y) == IF x >= y THEN x ELSE y
Abs(x) == IF x >= 0 THEN x ELSE -x

Range(s) == {s[i] : i \in 1..Len(s)}

(***************************************************************************)
(* Strings: str.lower, the `in` operator, ' '.join, str.split, int(str).   *)
(***************************************************************************)
LowerChar(c) == IF c >= 31 /\ c <= 56 THEN c - 30 ELSE c

\* str.lower()
Lower(s) == [i \in 1..Len(s) |-> LowerChar(s[i])]

\* sub in s
Contains(s, sub) ==
  \E i \in 0..(Len(s) - Len(sub)) :
    \A k \in 1..Len(sub) : s[i + k] = sub[k]

RECURSIVE Join(_)
\* ' '.join(words)
Join(words) ==
  IF words = <<>> THEN <<>>
  ELSE IF Len(words) = 1 THEN words[1]
  ELSE words[1] \o <<0>> \o Join(Tail(words))

RECURSIVE SplitFrom(_, _, _)
SplitFrom(s, i, cur) ==
  IF i > Len(s) THEN (IF cur = <<>> THEN <<>> ELSE <<cur>>)
  ELSE IF s[i] = 0
       THEN (IF cur = <<>> THEN <<>> ELSE <<cur>>) \o SplitFrom(s, i + 1, <<>>)
       ELSE SplitFrom(s, i + 1, Append(cur, s[i]))

\* s.split(): the maximal runs of non-space characters, in order
Split(s) == SplitFrom(s, 1, <<>>)

IsDigit(c) == c >= 70 /\ c <= 79

RECURSIVE Strip(_)
\* str.strip() of spaces, as int() applies it
Strip(s) ==
  IF s = <<>> THEN s
  ELSE IF s[1] = 0 THEN Strip(Tail(s))
  ELSE IF s[Len(s)] = 0 THEN Strip(SubSeq(s, 1, Len(s) - 1))
  ELSE s

RECURSIVE DigitsValue(_)
DigitsValue(s) ==
  IF s = <<>> THEN 0
  ELSE 10 * DigitsValue(SubSeq(s, 1, Len(s) - 1)) + (s[Len(s)] - 70)

\* the outcome of a conversion: [ok |-> TRUE, val] or ok = FALSE (ValueError)
Parsed(v) == [ok |-> TRUE, val |-> v]
ValueError == [ok |-> FALSE, val |-> 0]
Negated(r) == [ok |-> r.ok, val |-> 0 - r.val]

\* a text with a leading '-' is the negation of the rest
IsNegative(t) == t # <<>> /\ t[1] = 80

UnsignedInt(d) ==
  IF d # <<>> /\ \A i \in 1..Len(d) : IsDigit(d[i])
  THEN Parsed(DigitsValue(d)) ELSE ValueError

StrippedInt(t) ==
  IF IsNegative(t) THEN Negated(UnsignedInt(Tail(t))) ELSE UnsignedInt(t)

\* int(s) for a str
ParseInt(s) == StrippedInt(Strip(s))

(***************************************************************************)
(* difflib.SequenceMatcher(None, a, b).ratio(), as similarity() uses it.   *)
(* No junk; the autojunk heuristic needs 200 characters and stays out.     *)
(***************************************************************************)
RECURSIVE RunLen(_, _, _, _, _, _)
\* length of the common run of a[i..ahi) and b[j..bhi) (0-based positions)
RunLen(a, b, i, ahi, j, bhi) ==
  IF i < ahi /\ j < bhi /\ a[i + 1] = b[j + 1]
  THEN 1 + RunLen(a, b, i + 1, ahi, j + 1, bhi)
  ELSE 0

\* find_longest_match(alo, ahi, blo, bhi): the longest block, of those the
\* one starting earliest in a, and of those the one starting earliest in b
\* K[p]: the length of the common run starting at the positions p
RunTable(a, b, alo, ahi, blo, bhi) ==
  [p \in (alo..(ahi - 1)) \X (blo..(bhi - 1)) |-> RunLen(a, b, p[1], ahi, p[2], bhi)]

LongestIn(K) ==
  CHOOSE p \in DOMAIN K :
    \A q \in DOMAIN K :
      \/ K[p] > K[q]
      \/ K[p] = K[q] /\ (p[1] < q[1] \/ (p[1] = q[1] /\ p[2] <= q[2]))

BlockAt(K, p) == [i |-> p[1], j |-> p[2], k |-> K[p]]

LongestBlock(K) == BlockAt(K, LongestIn(K))

FindLongestMatch(a, b, alo, ahi, blo, bhi) ==
  LongestBlock(RunTable(a, b, alo, ahi, blo, bhi))

RECURSIVE MatchSize(_, _, _, _, _, _)

\* the block m, and the matching blocks to its left and to its right
AroundBlock(a, b, alo, ahi, blo, bhi, m) ==
  IF m.k = 0 THEN 0
  ELSE m.k + MatchSize(a, b, alo, m.i, blo, m.j)
           + MatchSize(a, b, m.i + m.k, ahi, m.j + m.k, bhi)

\* get_matching_blocks(): the sum of the sizes of the matching blocks
MatchSize(a, b, alo, ahi, blo, bhi) ==
  IF alo >= ahi \/ blo >= bhi THEN 0
  ELSE AroundBlock(a, b, alo, ahi, blo, bhi,
                   FindLongestMatch(a, b, alo, ahi, blo, bhi))

\* ratio(): 2.0 * matches / (len(a) + len(b)), and 1.0 for two empty strings
Ratio(a, b) ==
  IF Len(a) + Len(b) = 0 THEN [num |-> 1, den |-> 1]
  ELSE [num |-> 2 * MatchSize(a, b, 0, Len(a), 0, Len(b)),
        den |-> Len(a) + Len(b)]

\* r >= th / 1000
AtLeast(r, th) == r.num * 1000 >= th * r.den

(***************************************************************************)
(* Optional values: os.getenv's None, a Form(None) hint.                   *)
(***************************************************************************)
Absent == [set |-> FALSE, text |-> <<>>]
Text(s) == [set |-> TRUE, text |-> s]

\* Python truthiness of an Optional[str]: neither None nor ''
Truthy(v) == v.set /\ v.text # <<>>

(***************************************************************************)
(* Configuration: _get_float, _get_int, load_weights                       *)
(***************************************************************************)
RECURSIVE IndexOf(_, _, _)
IndexOf(s, c, i) ==
  IF i > Len(s) THEN 0 ELSE IF s[i] = c THEN i ELSE IndexOf(s, c, i + 1)

\* float(s) for a str, in thousandths: an optional sign, digits, and an
\* optional fraction of up to three digits; anything else is a ValueError
\* (Python's exponents, "inf" and "nan" are not among the modelled texts).
\* the integer part ip and the fraction fp of a decimal
Thousandths(ip, fp) ==
  IF /\ ip \o fp # <<>>
     /\ Len(fp) <= 3
     /\ \A i \in 1..Len(ip \o fp) : IsDigit((ip \o fp)[i])
  THEN Parsed(1000 * DigitsValue(ip) + DigitsValue(SubSeq(fp \o <<70, 70, 70>>, 1, 3)))
  ELSE ValueError

DecimalAt(d, dot) ==
  IF dot = 0 THEN Thousandths(d, <<>>)
  ELSE Thousandths(SubSeq(d, 1, dot - 1), SubSeq(d, dot + 1, Len(d)))

UnsignedFloat(d) == DecimalAt(d, IndexOf(d, 81, 1))

StrippedFloat(t) ==
  IF IsNegative(t) THEN Negated(UnsignedFloat(Tail(t))) ELSE UnsignedFloat(t)

ParseFloat(s) == StrippedFloat(Strip(s))

\* OrDefault, had the except clause returned 0
OrZero(r, default) == IF r.ok THEN r.val ELSE 0

\* try: return conversion(value)  except ValueError: return default
OrDefault(r, default) == IF r.ok THEN r.val ELSE default

_get_float(environ, name, default) ==
  IF ~environ[name].set THEN default
  ELSE OrDefault(ParseFloat(environ[name].text), default)

_get_int(environ, name, default) ==
  IF ~environ[name].set THEN default
  ELSE OrDefault(ParseInt(environ[name].text), default)

EnvKeys ==
  {"MONOLOG_BASE_SCORE_WEIGHT", "MONOLOG_BRAND_BONUS", "MONOLOG_NAME_BONUS",
   "MONOLOG_OCR_THRESHOLD_MINIMUM", "MONOLOG_OCR_THRESHOLD_FAIR",
   "MONOLOG_OCR_THRESHOLD_GOOD", "MONOLOG_OCR_BONUS_POOR",
   "MONOLOG_OCR_BONUS_FAIR", "MONOLOG_OCR_BONUS_GOOD",
   "MONOLOG_PRICE_BONUS_10PCT", "MONOLOG_PRICE_BONUS_20PCT",
   "MONOLOG_PRICE_THRESHOLD_10PCT", "MONOLOG_PRICE_THRESHOLD_20PCT",
   "MONOLOG_SIMILARITY_THRESHOLD"}

\* the dict load_weights builds, before max_bonus is added
BaseWeights(environ) ==
  [base_score_weight     |-> _get_float(environ, "MONOLOG_BASE_SCORE_WEIGHT", 300),
   brand_bonus           |-> _get_float(environ, "MONOLOG_BRAND_BONUS", 150),
   name_bonus            |-> _get_float(environ, "MONOLOG_NAME_BONUS", 150),
   ocr_threshold_minimum |-> _get_int(environ, "MONOLOG_OCR_THRESHOLD_MINIMUM", 10),
   ocr_threshold_fair    |-> _get_int(environ, "MONOLOG_OCR_THRESHOLD_FAIR", 30),
   ocr_threshold_good    |-> _get_int(environ, "MONOLOG_OCR_THRESHOLD_GOOD", 60),
   ocr_bonus_poor        |-> _get_float(environ, "MONOLOG_OCR_BONUS_POOR", 0),
   ocr_bonus_fair        |-> _get_float(environ, "MONOLOG_OCR_BONUS_FAIR", 25),
   ocr_bonus_good        |-> _get_float(environ, "MONOLOG_OCR_BONUS_GOOD", 50),
   price_bonus_10pct     |-> _get_float(environ, "MONOLOG_PRICE_BONUS_10PCT", 100),
   price_bonus_20pct     |-> _get_float(environ, "MONOLOG_PRICE_BONUS_20PCT", 50),
   price_threshold_10pct |-> _get_int(environ, "MONOLOG_PRICE_THRESHOLD_10PCT", 10),
   price_threshold_20pct |-> _get_int(environ, "MONOLOG_PRICE_THRESHOLD_20PCT", 20),
   similarity_threshold  |-> _get_float(environ, "MONOLOG_SIMILARITY_THRESHOLD", 800)]

\* weights['max_bonus'] = brand + name + ocr_good + price_10pct
WithMaxBonus(weights) ==
  weights @@
  [max_bonus |-> weights.brand_bonus + weights.name_bonus
                 + weights.ocr_bonus_good + weights.price_bonus_10pct]

load_weights(environ) == WithMaxBonus(BaseWeights(environ))

(***************************************************************************)
(* The inputs drawn.                                                       *)
(***************************************************************************)
s_abcde  == <<1, 2, 3, 4, 5>>
s_abcdf  == <<1, 2, 3, 4, 6>>
s_abcdex == <<1, 2, 3, 4, 5, 24>>
s_abcdfy == <<1, 2, 3, 4, 6, 25>>
s_nissin == <<14, 9, 19, 19, 9, 14>>
s_NISSIN == <<44, 39, 49, 49, 39, 44>>
s_HISSIN == <<38, 39, 49, 49, 39, 44>>
s_nis    == <<14, 9, 19>>
s_ABC    == <<31, 32, 33>>
s_abc    == <<1, 2, 3>>
s_100    == <<71, 70, 70>>
s_nissin_foods == <<61, 62, 63, 64>>          \* 日清食品

\* the longest detected-text list drawn
MaxDetected == 2

IntPrice(n) == [kind |-> "int", val |-> n, text |-> <<>>]
StrPrice(s) == [kind |-> "str", val |-> 0, text |-> s]
NoPrice == [kind |-> "absent", val |-> 0, text |-> <<>>]
NoOcrLines == [kind |-> "absent", lines |-> <<>>]
\* a value json.loads rejects, such as '[{"text": "nissin"}': lines is the
\* text written in it, which no parse delivers
MalformedOcrLines == [kind |-> "malformed", lines |-> << s_nissin >>]
JsonOcrLines(lines) == [kind |-> "json", lines |-> lines]

\* an environment with no MONOLOG_ variable set, and one with some set
EmptyEnv == [k \in EnvKeys |-> Absent]
EnvWith(pairs) ==
  [k \in EnvKeys |-> IF \E e \in pairs : e[1] = k
                     THEN Text((CHOOSE e \in pairs : e[1] = k)[2])
                     ELSE Absent]

EnvChoices ==
  { EmptyEnv,
    \* BRAND_BONUS=0.01, OCR_THRESHOLD_MINIMUM=0, OCR_BONUS_POOR=0.01
    EnvWith({ <<"MONOLOG_BRAND_BONUS", <<70, 81, 70, 71>> >>,
              <<"MONOLOG_OCR_THRESHOLD_MINIMUM", <<70>> >>,
              <<"MONOLOG_OCR_BONUS_POOR", <<70, 81, 70, 71>> >> }),
    \* every term of max_possible is 0
    EnvWith({ <<"MONOLOG_BASE_SCORE_WEIGHT", <<70>> >>,
              <<"MONOLOG_BRAND_BONUS", <<70>> >>,
              <<"MONOLOG_NAME_BONUS", <<70, 81, 70>> >>,
              <<"MONOLOG_OCR_BONUS_GOOD", <<70>> >>,
              <<"MONOLOG_PRICE_BONUS_10PCT", <<70>> >> }),
    \* OCR_BONUS_FAIR=0.3, PRICE_BONUS_20PCT=0.4: lower tiers that pay more;
    \* OCR_THRESHOLD_GOOD=50
    EnvWith({ <<"MONOLOG_OCR_BONUS_FAIR", <<70, 81, 73>> >>,
              <<"MONOLOG_PRICE_BONUS_20PCT", <<70, 81, 74>> >>,
              <<"MONOLOG_OCR_THRESHOLD_GOOD", <<75, 70>> >> }) }

ItemChoices ==
  { [name |-> s_abcde, maker |-> s_nissin, price |-> IntPrice(100),
     ocr_lines |-> NoOcrLines, similarity_score |-> 700],
    [name |-> s_abcdf \o <<0>> \o s_abcdex, maker |-> <<>>, price |-> StrPrice(s_abc),
     ocr_lines |-> NoOcrLines, similarity_score |-> 1000],
    [name |-> s_abcde, maker |-> s_nissin_foods, price |-> IntPrice(115),
     ocr_lines |-> MalformedOcrLines, similarity_score |-> 0],
    [name |-> <<>>, maker |-> <<>>, price |-> NoPrice,
     ocr_lines |-> JsonOcrLines(<< s_abcde >>), similarity_score |-> 250],
    \* an entry with no text at all
    [name |-> <<>>, maker |-> <<>>, price |-> IntPrice(90),
     ocr_lines |-> NoOcrLines, similarity_score |-> 500] }

MakerChoices == { <<>>, s_nissin, s_nissin_foods }

BrandHints == { Absent, Text(s_NISSIN), Text(s_nis) }
NameHints == { Absent, Text(s_ABC) }
PriceHints == { Absent, Text(s_abc), Text(s_100) }

HintChoices == [brand : BrandHints, name : NameHints, price : PriceHints]

Tokens == { s_abcde, s_abcdfy, s_nissin, s_HISSIN }

SeqsUpTo(S, n) == UNION {[1..k -> S] : k \in 0..n}

TextChoices == SeqsUpTo(Tokens, MaxDetected)

(***************************************************************************)
(* similarity().  The ratios of the strings drawn are tabulated once       *)
(* (SimCache; @@ makes the table explicit); any other pair is              *)
(* computed on the spot.                                                   *)
(***************************************************************************)
Vocabulary ==
  LET whole == Tokens \cup MakerChoices
               \cup {i.name : i \in ItemChoices} \cup {i.maker : i \in ItemChoices}
      lines == UNION {Range(i.ocr_lines.lines) : i \in ItemChoices}
      words == UNION {Range(Split(w)) : w \in whole \cup lines}
  IN {Lower(w) : w \in whole \cup words}

SimCache == [p \in Vocabulary \X Vocabulary |-> Ratio(p[1], p[2])] @@ << >>

CachedRatio(la, lb) ==
  IF la \in Vocabulary /\ lb \in Vocabulary THEN SimCache[<<la, lb>>] ELSE Ratio(la, lb)

similarity(a, b) == CachedRatio(Lower(a), Lower(b))

(***************************************************************************)
(* brand_mapping_data.py.  Three of the table's rows:                      *)
(*   "nissin" -> 日清 (61 62), "ufo" -> 日清, "myojo" -> 明星食品.          *)
(***************************************************************************)
BRAND_MAPPING ==
  { << <<14, 9, 19, 19, 9, 14>>, <<61, 62>> >>,
    << <<21, 6, 15>>,            <<61, 62>> >>,
    << <<13, 25, 15, 10, 15>>,   <<65, 66, 63, 64>> >> }

\* BRAND_MAPPING.get(key, default)
DictGet(dict, key, default) ==
  IF \E e \in dict : e[1] = key
  THEN (CHOOSE e \in dict : e[1] = key)[2]
  ELSE default

get_official_maker_name(query) ==
  IF query = <<>> THEN Absent
  ELSE Text(DictGet(BRAND_MAPPING, Lower(query), query))

(***************************************************************************)
(* A candidate (item) is the catalog metadata plus similarity_score:       *)
(*   name, maker : strings ('' also stands for a missing key: every read   *)
(*                 is item.get(key, '') or a truth test)                   *)
(*   price       : [kind, val, text] of kind "absent", "int" (val) or      *)
(*                 "str" (text)                                            *)
(*   ocr_lines   : [kind, lines] of kind "absent", "malformed" (a string   *)
(*                 json.loads rejects) or "json" (a list of {text: line})  *)
(*   similarity_score : thousandths                                        *)
(***************************************************************************)
RECURSIVE FirstFuzzy(_, _, _, _)
\* for word in words: if len(word) >= 3 and similarity(word, target) >= th:
\* the position of the first such word, 0 when the loop ends without one
FirstFuzzy(words, target, th, i) ==
  IF i > Len(words) THEN 0
  ELSE IF Len(words[i]) >= 3 /\ AtLeast(similarity(words[i], target), th) THEN i
  ELSE FirstFuzzy(words, target, th, i + 1)

\* the user's brand hint names the candidate's maker
BrandHint(item, user_inputs) ==
  /\ Truthy(user_inputs.brand)
  /\ Contains(item.maker, get_official_maker_name(user_inputs.brand.text).text)

\* BrandOcrAdds, had the two branches not asked for a maker
BrandOcrAddsAnyMaker(item, detected_texts, W) ==
  IF Contains(Join(detected_texts), item.maker) THEN 1
  ELSE IF FirstFuzzy(detected_texts, item.maker, W.similarity_threshold, 1) > 0 THEN 1
  ELSE 0

\* the number of times the OCR brand path runs bonus_score += brand_bonus
BrandOcrAdds(item, detected_texts, W) ==
  IF item.maker = <<>> THEN 0
  ELSE IF Contains(Join(detected_texts), item.maker) THEN 1
  ELSE IF FirstFuzzy(detected_texts, item.maker, W.similarity_threshold, 1) > 0 THEN 1
  ELSE 0

\* Matched, had the hint path set its flag without adding the bonus
MatchedHintUnpaid(hint, viaOcr) ==
  [adds |-> viaOcr, matched |-> hint \/ viaOcr > 0, hint |-> hint]

\* what a filter did: how often it added its bonus, and its matched flag
Matched(hint, viaOcr) ==
  [adds |-> (IF hint THEN 1 ELSE 0) + viaOcr,
   matched |-> hint \/ viaOcr > 0,
   hint |-> hint]

\* BrandOcr, had the OCR path not asked for `not brand_matched`
BrandOcrUnguarded(item, detected_texts, W, brand_matched) ==
  Matched(brand_matched,
          IF detected_texts # <<>>
          THEN BrandOcrAdds(item, detected_texts, W) ELSE 0)

\* [filter 1-2]: if not brand_matched and detected_texts
BrandOcr(item, detected_texts, W, brand_matched) ==
  Matched(brand_matched,
          IF ~brand_matched /\ detected_texts # <<>>
          THEN BrandOcrAdds(item, detected_texts, W) ELSE 0)

\* [filter 1]
BrandStage(item, user_inputs, detected_texts, W) ==
  BrandOcr(item, detected_texts, W, BrandHint(item, user_inputs))

\* the user's name hint is part of the candidate's name, case aside
NameHint(item, user_inputs) ==
  /\ Truthy(user_inputs.name)
  /\ Contains(Lower(item.name), Lower(user_inputs.name.text))

\* item_name in detected_full or any(word in item_name for word in
\* detected_texts if len(word) >= 2)
NameExact(item_name, detected_texts) ==
  \/ Contains(Join(detected_texts), item_name)
  \/ \E i \in 1..Len(detected_texts) :
       Len(detected_texts[i]) >= 2 /\ Contains(item_name, detected_texts[i])

\* the number of times the OCR name path runs bonus_score += name_bonus
NameOcrAdds(item, detected_texts, W) ==
  IF item.name = <<>> THEN 0
  ELSE IF NameExact(item.name, detected_texts) THEN 1
  ELSE IF FirstFuzzy(detected_texts, item.name, W.similarity_threshold, 1) > 0 THEN 1
  ELSE 0

NameOcr(item, detected_texts, W, name_matched) ==
  Matched(name_matched,
          IF ~name_matched /\ detected_texts # <<>>
          THEN NameOcrAdds(item, detected_texts, W) ELSE 0)

\* [filter 2]
NameStage(item, user_inputs, detected_texts, W) ==
  NameOcr(item, detected_texts, W, NameHint(item, user_inputs))

\* int(item.get('price', 0))
ItemPrice(item) ==
  CASE item.price.kind = "absent" -> Parsed(0)
    [] item.price.kind = "int" -> Parsed(item.price.val)
    [] OTHER -> ParseInt(item.price.text)

\* the integers n of 0 .. 100 for which the double n / 100 * 100 is above n
\* (7 / 100 * 100 is 7.000000000000001).  A quotient diff / target_price
\* that differs from n / 100 differs by at least 1 / (100 * target_price),
\* far more than the rounding, so the doubles matter at equality only.
RoundsUp == {7, 14, 28, 55, 56}

\* price_ratio <= threshold, where price_ratio is the double
\* diff / target_price * 100 if target_price > 0 and 100 otherwise;
\* the thresholds drawn are at most 100
PriceWithin(diff, target_price, threshold) ==
  IF target_price > 0
  THEN \/ diff * 100 < threshold * target_price
       \/ diff * 100 = threshold * target_price /\ threshold \notin RoundsUp
  ELSE 100 <= threshold

\* the tier of a target and an item price: "near", "far" or "none"
PriceTier(target_price, item_price, W) ==
  IF PriceWithin(Abs(target_price - item_price), target_price,
                 W.price_threshold_10pct) THEN "near"
  ELSE IF PriceWithin(Abs(target_price - item_price), target_price,
                      W.price_threshold_20pct) THEN "far"
  ELSE "none"

\* the price filter did not run, or ran to no tier
NoTier == [tier |-> "none", raised |-> FALSE]

\* TryPrice, had int(item.get('price', 0)) been left outside the try
TryPriceUncaught(target, actual, W) ==
  IF target.ok /\ actual.ok
  THEN [tier |-> PriceTier(target.val, actual.val, W), raised |-> FALSE]
  ELSE [tier |-> "none", raised |-> target.ok]

\* the try block: a ValueError of either int() is caught (except: pass) and
\* leaves the filter without a tier
TryPrice(target, actual, W) ==
  IF target.ok /\ actual.ok
  THEN [tier |-> PriceTier(target.val, actual.val, W), raised |-> FALSE]
  ELSE NoTier

PriceBonus(tier, W) ==
  CASE tier = "near" -> W.price_bonus_10pct
    [] tier = "far" -> W.price_bonus_20pct
    [] OTHER -> 0

\* the outcome of the price filter
Priced(try, W) ==
  [bonus |-> PriceBonus(try.tier, W), tier |-> try.tier, raised |-> try.raised]

\* [filter 3]
PriceStage(item, user_inputs, W) ==
  Priced(IF Truthy(user_inputs.price)
         THEN TryPrice(ParseInt(user_inputs.price.text), ItemPrice(item), W)
         ELSE NoTier, W)

(***************************************************************************)
(* _calculate_ocr_match_score.  The two for loops of the fuzzy matching    *)
(* iterate over Python sets, whose order the program does not fix (string  *)
(* hashing is seeded per process).  fuzzy_count is the number of pairs the *)
(* loops of one call found: one of FuzzyOutcomes, the counts over all the  *)
(* orders the two sets can be iterated in.                                 *)
(***************************************************************************)
RECURSIVE Flatten(_)
Flatten(seqs) == IF seqs = <<>> THEN <<>> ELSE Head(seqs) \o Flatten(Tail(seqs))

\* OcrLineTokens, had the text of an unparsable value been taken all the same
OcrLineTokensUnparsed(item) ==
  Flatten([i \in 1..Len(item.ocr_lines.lines) |-> Split(item.ocr_lines.lines[i])])

\* the tokens of item['ocr_lines']; json.loads raising leaves none
OcrLineTokens(item) ==
  IF item.ocr_lines.kind = "json"
  THEN Flatten([i \in 1..Len(item.ocr_lines.lines) |-> Split(item.ocr_lines.lines[i])])
  ELSE <<>>

db_texts(item) == Split(item.name) \o Split(item.maker) \o OcrLineTokens(item)

LowerSet(words) == {Lower(w) : w \in {x \in Range(words) : x # <<>>}}

detected_set(detected_texts) == LowerSet(detected_texts)
db_set(item) == LowerSet(db_texts(item))

\* the orders in which a set may be iterated
Perms(S) ==
  {f \in [1..Cardinality(S) -> S] : \A i, j \in 1..Cardinality(S) : f[i] = f[j] => i = j}

RemoveAt(seq, j) == SubSeq(seq, 1, j - 1) \o SubSeq(seq, j + 1, Len(seq))

\* the first db word of length >= 3 similar to det_word, 0 if there is none
RECURSIVE FirstSimilar(_, _, _, _)
FirstSimilar(det_word, dbOrder, th, j) ==
  IF j > Len(dbOrder) THEN 0
  ELSE IF Len(dbOrder[j]) >= 3 /\ AtLeast(similarity(det_word, dbOrder[j]), th) THEN j
  ELSE FirstSimilar(det_word, dbOrder, th, j + 1)

RECURSIVE FuzzyPairs(_, _, _)
\* PairAt, had the paired db word stayed in remaining_db
PairAtKeeping(detOrder, dbOrder, th, j) ==
  IF j = 0 THEN FuzzyPairs(Tail(detOrder), dbOrder, th)
  ELSE 1 + FuzzyPairs(Tail(detOrder), dbOrder, th)

\* det_word found its db word at position j (0: none): pair them, discard
\* the db word, and go on with the next detected word
PairAt(detOrder, dbOrder, th, j) ==
  IF j = 0 THEN FuzzyPairs(Tail(detOrder), dbOrder, th)
  ELSE 1 + FuzzyPairs(Tail(detOrder), RemoveAt(dbOrder, j), th)

\* the fuzzy loop: every detected word of length >= 3 takes the first db word
\* of length >= 3 still in remaining_db with similarity >= the threshold
FuzzyPairs(detOrder, dbOrder, th) ==
  IF detOrder = <<>> THEN 0
  ELSE IF Len(Head(detOrder)) < 3 THEN FuzzyPairs(Tail(detOrder), dbOrder, th)
  ELSE PairAt(detOrder, dbOrder, th, FirstSimilar(Head(detOrder), dbOrder, th, 1))

FuzzyOver(remaining_detected, remaining_db, th) ==
  {FuzzyPairs(d, b, th) : d \in Perms(remaining_detected), b \in Perms(remaining_db)}

FuzzyOutcomes(detected_texts, item, W) ==
  FuzzyOver(detected_set(detected_texts) \ db_set(item),
            db_set(item) \ detected_set(detected_texts),
            W.similarity_threshold)

\* OcrTierBonus, had the good tier been entered with > instead of >=
OcrTierBonusStrict(match_ratio, W) ==
  IF match_ratio.num > W.ocr_threshold_good * match_ratio.den THEN W.ocr_bonus_good
  ELSE IF match_ratio.num >= W.ocr_threshold_fair * match_ratio.den THEN W.ocr_bonus_fair
  ELSE IF match_ratio.num >= W.ocr_threshold_minimum * match_ratio.den THEN W.ocr_bonus_poor
  ELSE 0

\* the three tiers of a match ratio num / den (a percentage)
OcrTierBonus(match_ratio, W) ==
  IF match_ratio.num >= W.ocr_threshold_good * match_ratio.den THEN W.ocr_bonus_good
  ELSE IF match_ratio.num >= W.ocr_threshold_fair * match_ratio.den THEN W.ocr_bonus_fair
  ELSE IF match_ratio.num >= W.ocr_threshold_minimum * match_ratio.den THEN W.ocr_bonus_poor
  ELSE 0

\* return match_ratio, bonus
Tiered(match_ratio, W) ==
  [match_ratio |-> match_ratio, bonus |-> OcrTierBonus(match_ratio, W),
   sets_empty |-> FALSE]

\* overlap / total * 100 if total > 0 else 0.0
MatchRatio(overlap, total) ==
  IF total > 0 THEN [num |-> overlap * 100, den |-> total] ELSE [num |-> 0, den |-> 1]

\* from the two sets on
OcrMatch(dset, bset, W, fuzzy_count) ==
  IF dset = {} \/ bset = {}
  THEN [match_ratio |-> [num |-> 0, den |-> 1], bonus |-> 0, sets_empty |-> TRUE]
  ELSE Tiered(MatchRatio(Cardinality(dset \cap bset) + fuzzy_count,
                         Max(Cardinality(dset), Cardinality(bset))), W)

_calculate_ocr_match_score(detected_texts, item, W, fuzzy_count) ==
  OcrMatch(detected_set(detected_texts), db_set(item), W, fuzzy_count)

(***************************************************************************)
(* calculate_final_score                                                   *)
(***************************************************************************)
\* normalized_score = final_score / max_possible if max_possible > 0 else 0.0
\* and min(normalized_score, 1.0), as a fraction
Normalized(final_score, max_possible) ==
  IF max_possible > 0
  THEN [num |-> Min(final_score, max_possible), den |-> max_possible]
  ELSE [num |-> 0, den |-> 1]

\* NormalizedScore, had max_possible left out the bonus weight
NormalizedScoreFlat(base_score, bonus_score, W) ==
  Normalized(base_score * W.base_score_weight
               + bonus_score * (1000 - W.base_score_weight),
             1000 * W.base_score_weight + 1000 * W.max_bonus)

\* bonus_weight = 1.0 - base_score_weight; all terms in millionths
NormalizedScore(base_score, bonus_score, W) ==
  Normalized(base_score * W.base_score_weight
               + bonus_score * (1000 - W.base_score_weight),
             1000 * W.base_score_weight
               + W.max_bonus * (1000 - W.base_score_weight))

\* [filter 4] of calculate_final_score
OcrStage(item, detected_texts, W, fuzzy_count) ==
  IF detected_texts # <<>>
  THEN _calculate_ocr_match_score(detected_texts, item, W, fuzzy_count).bonus
  ELSE 0

\* the score of the bonuses the four filters added
Scored(item, W, bonus_score, brand, name, price, ocr_bonus) ==
  [score |-> NormalizedScore(item.similarity_score, bonus_score, W),
   bonus_score |-> bonus_score,
   brand_adds |-> brand.adds,
   name_adds |-> name.adds,
   price_bonus |-> price.bonus,
   price_tier |-> price.tier,
   ocr_bonus |-> ocr_bonus,
   raised |-> price.raised]

Summed(item, W, brand, name, price, ocr_bonus) ==
  Scored(item, W,
         brand.adds * W.brand_bonus + name.adds * W.name_bonus
           + price.bonus + ocr_bonus,
         brand, name, price, ocr_bonus)

calculate_final_score(item, user_inputs, detected_texts, W, fuzzy_count) ==
  Summed(item, W,
         BrandStage(item, user_inputs, detected_texts, W),
         NameStage(item, user_inputs, detected_texts, W),
         PriceStage(item, user_inputs, W),
         OcrStage(item, detected_texts, W, fuzzy_count))

(***************************************************************************)
(* calculate_score_with_debug: the same four filters written a second time *)
(* in the source, with the breakdown and the reasons.                      *)
(***************************************************************************)
\* what a filter of the debug scorer did
MatchedDebug(hint, viaOcr, bonus, hintReason, ocrReason) ==
  [adds |-> (IF hint THEN 1 ELSE 0) + viaOcr,
   breakdown |-> IF hint \/ viaOcr > 0 THEN bonus ELSE 0,
   reasons |-> (IF hint THEN <<hintReason>> ELSE <<>>)
               \o (IF viaOcr > 0 THEN <<ocrReason>> ELSE <<>>)]

BrandOcrAddsDebug(item, detected_texts, W) ==
  IF item.maker = <<>> THEN 0
  ELSE IF Contains(Join(detected_texts), item.maker) THEN 1
  ELSE IF FirstFuzzy(detected_texts, item.maker, W.similarity_threshold, 1) > 0 THEN 1
  ELSE 0

BrandOcrDebug(item, detected_texts, W, brand_matched) ==
  MatchedDebug(brand_matched,
               IF ~brand_matched /\ detected_texts # <<>>
               THEN BrandOcrAddsDebug(item, detected_texts, W) ELSE 0,
               W.brand_bonus, "brand:hint", "brand:ocr")

BrandStageDebug(item, user_inputs, detected_texts, W) ==
  BrandOcrDebug(item, detected_texts, W,
                /\ Truthy(user_inputs.brand)
                /\ Contains(item.maker,
                            get_official_maker_name(user_inputs.brand.text).text))

NameOcrAddsDebug(item, detected_texts, W) ==
  IF item.name = <<>> THEN 0
  ELSE IF \/ Contains(Join(detected_texts), item.name)
          \/ \E i \in 1..Len(detected_texts) :
               Len(detected_texts[i]) >= 2 /\ Contains(item.name, detected_texts[i])
       THEN 1
  ELSE IF FirstFuzzy(detected_texts, item.name, W.similarity_threshold, 1) > 0 THEN 1
  ELSE 0

NameOcrDebug(item, detected_texts, W, name_matched) ==
  MatchedDebug(name_matched,
               IF ~name_matched /\ detected_texts # <<>>
               THEN NameOcrAddsDebug(item, detected_texts, W) ELSE 0,
               W.name_bonus, "name:api", "name:ocr")

NameStageDebug(item, user_inputs, detected_texts, W) ==
  NameOcrDebug(item, detected_texts, W,
               /\ Truthy(user_inputs.name)
               /\ Contains(Lower(item.name), Lower(user_inputs.name.text)))

PricedDebug(try, W) ==
  [bonus |-> CASE try.tier = "near" -> W.price_bonus_10pct
               [] try.tier = "far" -> W.price_bonus_20pct
               [] OTHER -> 0,
   reasons |-> CASE try.tier = "near" -> <<"price:near">>
                 [] try.tier = "far" -> <<"price:far">>
                 [] OTHER -> <<>>,
   raised |-> try.raised]

PriceStageDebug(item, user_inputs, W) ==
  PricedDebug(IF Truthy(user_inputs.price)
              THEN TryPrice(ParseInt(user_inputs.price.text), ItemPrice(item), W)
              ELSE NoTier, W)

\* the level named in the reason of a paid OCR bonus
OcrLevel(match_ratio, W) ==
  IF match_ratio.num >= W.ocr_threshold_good * match_ratio.den THEN "ocr:good"
  ELSE IF match_ratio.num >= W.ocr_threshold_fair * match_ratio.den THEN "ocr:fair"
  ELSE "ocr:poor"

\* OcrRecorded, had the bonus been added when the ratio is positive
OcrRecordedIfMatched(r, W) ==
  [bonus |-> IF r.match_ratio.num > 0 THEN r.bonus ELSE 0,
   ocr_ratio |-> r.match_ratio,
   reasons |-> IF r.match_ratio.num > 0 THEN <<OcrLevel(r.match_ratio, W)>> ELSE <<>>]

\* the ratio is always recorded, the bonus only when it is positive
OcrRecorded(r, W) ==
  [bonus |-> IF r.bonus > 0 THEN r.bonus ELSE 0,
   ocr_ratio |-> r.match_ratio,
   reasons |-> IF r.bonus > 0 THEN <<OcrLevel(r.match_ratio, W)>>
               ELSE IF r.match_ratio.num > 0 THEN <<"ocr:below_minimum">>
               ELSE <<>>]

OcrStageDebug(item, detected_texts, W, fuzzy_count) ==
  IF detected_texts = <<>>
  THEN [bonus |-> 0, ocr_ratio |-> [num |-> 0, den |-> 1], reasons |-> <<>>]
  ELSE OcrRecorded(_calculate_ocr_match_score(detected_texts, item, W, fuzzy_count), W)

\* the normalisation as calculate_score_with_debug writes it
NormalizedScoreDebug(base_score, bonus_score, W) ==
  Normalized(base_score * W.base_score_weight
               + bonus_score * (1000 - W.base_score_weight),
             1000 * W.base_score_weight
               + W.max_bonus * (1000 - W.base_score_weight))

ScoredDebug(item, W, bonus_score, brand, name, price, ocr) ==
  [score |-> NormalizedScoreDebug(item.similarity_score, bonus_score, W),
   reasons |-> brand.reasons \o name.reasons \o price.reasons \o ocr.reasons,
   breakdown |-> [brand |-> brand.breakdown, name |-> name.breakdown,
                  price |-> price.bonus, ocr |-> ocr.bonus,
                  ocr_ratio |-> ocr.ocr_ratio],
   bonus_score |-> bonus_score,
   brand_adds |-> brand.adds,
   name_adds |-> name.adds,
   raised |-> price.raised]

SummedDebug(item, W, brand, name, price, ocr) ==
  ScoredDebug(item, W,
              brand.adds * W.brand_bonus + name.adds * W.name_bonus
                + price.bonus + ocr.bonus,
              brand, name, price, ocr)

calculate_score_with_debug(item, user_inputs, detected_texts, W, fuzzy_count) ==
  SummedDebug(item, W,
              BrandStageDebug(item, user_inputs, detected_texts, W),
              NameStageDebug(item, user_inputs, detected_texts, W),
              PriceStageDebug(item, user_inputs, W),
              OcrStageDebug(item, detected_texts, W, fuzzy_count))

(***************************************************************************)
(* State.                                                                  *)
(*   environ, WEIGHTS : the process environment and the weights loaded     *)
(*                      from it at import                                  *)
(*   model, ocr, client, collection : the lazily initialised globals       *)
(*                      (TRUE when set, FALSE when None)                   *)
(*   snapshot         : what response.json holds                           *)
(*   pc, user_inputs, detected_texts, retrieved, candidates, response :    *)
(*                      the request search_by_image is serving             *)
(*   probe, run, before : the scorer applied on its own: the arguments of  *)
(*                      a call, its results, and the call before it        *)
(***************************************************************************)
VARIABLES environ, WEIGHTS, model, ocr, client, collection, snapshot,
          pc, user_inputs, detected_texts, retrieved, candidates, response,
          probe, run, before

globals == <<environ, WEIGHTS, model, ocr, client, collection, snapshot>>
request == <<pc, user_inputs, detected_texts, retrieved, candidates, response>>
scorer == <<probe, run, before>>
vars == <<globals, request, scorer>>

NoHints == [brand |-> Absent, name |-> Absent, price |-> Absent]
NoResponse == [status |-> "none", detected_text |-> <<>>, results |-> <<>>]
NotQueried == [queried |-> FALSE, entries |-> <<>>]
NoSnapshot == [kind |-> "none"]
NoRun == [done |-> FALSE]

\* module import: WEIGHTS = load_weights(), the four globals are None
ImportModule ==
  /\ environ \in EnvChoices
  /\ WEIGHTS = load_weights(environ)
  /\ model = FALSE /\ ocr = FALSE /\ client = FALSE /\ collection = FALSE
  /\ snapshot = NoSnapshot

\* no request is being served
RequestIdle ==
  /\ pc = "idle"
  /\ user_inputs = NoHints
  /\ detected_texts = <<>>
  /\ retrieved = NotQueried
  /\ candidates = <<>>
  /\ response = NoResponse

(***************************************************************************)
(* The scorer on its own: calculate_final_score,                           *)
(* calculate_score_with_debug and _calculate_ocr_match_score applied to    *)
(* drawn arguments.                                                        *)
(***************************************************************************)
\* what the scorers' call of _calculate_ocr_match_score returned; they call
\* it only if detected_texts is not empty
OcrCall(p, W, n) ==
  IF p.detected_texts # <<>>
  THEN _calculate_ocr_match_score(p.detected_texts, p.item, W, n) @@ [called |-> TRUE]
  ELSE [called |-> FALSE]

\* the calls on the probe p in a process whose sets iterate in an order that
\* makes the fuzzy loop find n pairs
Run(p, W, n) ==
  [done |-> TRUE,
   fuzzy_count |-> n,
   final |-> calculate_final_score(p.item, p.user_inputs, p.detected_texts, W, n),
   debug |-> calculate_score_with_debug(p.item, p.user_inputs, p.detected_texts, W, n),
   ocr |-> OcrCall(p, W, n)]

Runs(p, W) == {Run(p, W, n) : n \in FuzzyOutcomes(p.detected_texts, p.item, W)}

ScoreInit ==
  /\ ImportModule
  /\ RequestIdle
  /\ probe \in [item : ItemChoices, user_inputs : HintChoices,
                detected_texts : TextChoices]
  /\ run = NoRun
  /\ before = [done |-> FALSE]

\* the first call
Score ==
  /\ ~run.done
  /\ run' \in Runs(probe, WEIGHTS)
  /\ UNCHANGED <<globals, request, probe, before>>

\* the same call once more, in a process of its own
Rescore ==
  /\ run.done /\ ~before.done
  /\ before' = [done |-> TRUE, probe |-> probe, run |-> run, change |-> "none"]
  /\ run' \in Runs(probe, WEIGHTS)
  /\ UNCHANGED <<globals, request, probe>>

\* the probes that add one thing to p: a hint where there was none, or a
\* maker where the candidate had none
Variants(p) ==
  {[change |-> "brand", probe |-> [p EXCEPT !.user_inputs.brand = b]] :
      b \in IF p.user_inputs.brand = Absent THEN BrandHints \ {Absent} ELSE {}}
  \cup
  {[change |-> "name", probe |-> [p EXCEPT !.user_inputs.name = n]] :
      n \in IF p.user_inputs.name = Absent THEN NameHints \ {Absent} ELSE {}}
  \cup
  {[change |-> "price", probe |-> [p EXCEPT !.user_inputs.price = c]] :
      c \in IF p.user_inputs.price = Absent THEN PriceHints \ {Absent} ELSE {}}
  \cup
  {[change |-> "maker", probe |-> [p EXCEPT !.item.maker = m]] :
      m \in IF p.item.maker = <<>> THEN MakerChoices \ {<<>>} ELSE {}}

\* a second call whose arguments differ in one place
ScoreVariant ==
  /\ run.done /\ ~before.done
  /\ \E v \in Variants(probe) :
       /\ before' = [done |-> TRUE, probe |-> probe, run |-> run, change |-> v.change]
       /\ probe' = v.probe
       /\ run' \in Runs(v.probe, WEIGHTS)
  /\ UNCHANGED <<globals, request>>

ScoreNext == Score \/ Rescore \/ ScoreVariant

SpecScore == ScoreInit /\ [][ScoreNext]_vars

(***************************************************************************)
(* The inputs of a request.                                                *)
(***************************************************************************)
\* the most ids collection.query returns here (n_results is 50)
MaxRetrieved == 21

\* the hints of the requests drawn
RequestHints ==
  { NoHints,
    [brand |-> Text(s_NISSIN), name |-> Text(s_ABC), price |-> Text(s_100)] }

\* an upload: whether the image decodes, and the texts OCR reads off it
Upload(image_ok, texts) == [image_ok |-> image_ok, texts |-> texts]
Uploads ==
  { Upload(FALSE, <<>>), Upload(TRUE, <<>>), Upload(TRUE, <<s_abcde, s_nissin>>) }

\* one row of the query result: the metadata, the distance the provider
\* reports, and cosine(query_vector, embedding), in thousandths (0 .. 2000)
Row(meta, dist, cosine_dist) == [meta |-> meta, dist |-> dist, cosine |-> cosine_dist]

item_cup == [name |-> s_abcde, maker |-> s_nissin, price |-> IntPrice(100),
             ocr_lines |-> NoOcrLines]
item_foods == [name |-> s_abcde, maker |-> s_nissin_foods, price |-> IntPrice(115),
               ocr_lines |-> MalformedOcrLines]
item_blank == [name |-> <<>>, maker |-> <<>>, price |-> IntPrice(90),
               ocr_lines |-> NoOcrLines]

\* the rows a result list repeats, in this order
Cycles ==
  { << Row(item_cup, 180, 300) >>,
    << Row(item_foods, 180, 300), Row(item_cup, 500, 400) >>,
    << Row(item_blank, 720, 1200), Row(item_cup, 180, 300), Row(item_foods, 0, 0) >> }

\* the first n rows of the list that repeats cyc, with ids 1 .. n
Retrieval(cyc, n) ==
  [i \in 1..n |-> cyc[((i - 1) % Len(cyc)) + 1] @@ [id |-> i]]

\* what collection.query does: it raises, or returns a list of rows
QueryOutcomes ==
  { [raised |-> TRUE, entries |-> <<>>] }
  \cup { [raised |-> FALSE, entries |-> Retrieval(cyc, n)] :
           cyc \in Cycles, n \in 0..MaxRetrieved }

\* what writing response.json does: it succeeds, open() raises, or
\* json.dump raises after open() has truncated the file
WriteOutcomes == { "written", "open_raises", "dump_raises" }

(***************************************************************************)
(* initialize_models                                                       *)
(***************************************************************************)
Handles(m, o, c, col, raised) ==
  [model |-> m, ocr |-> o, client |-> c, collection |-> col, raised |-> raised]

\* initialize_models, had it not asked `if model is None`
initialize_modelsEachTime(m, o, c, col) ==
  { Handles(FALSE, o, c, col, TRUE),
    Handles(TRUE, o, c, col, TRUE),
    Handles(TRUE, TRUE, c, col, TRUE),
    Handles(TRUE, TRUE, TRUE, col, TRUE),
    Handles(TRUE, TRUE, TRUE, TRUE, FALSE) }

\* the outcomes of one call: nothing to do once model is set; otherwise each
\* of the four constructors may raise, and what was assigned before it stays
initialize_models(m, o, c, col) ==
  IF m THEN { Handles(m, o, c, col, FALSE) }
  ELSE { Handles(FALSE, o, c, col, TRUE),
         Handles(TRUE, o, c, col, TRUE),
         Handles(TRUE, TRUE, c, col, TRUE),
         Handles(TRUE, TRUE, TRUE, col, TRUE),
         Handles(TRUE, TRUE, TRUE, TRUE, FALSE) }

(***************************************************************************)
(* search_by_image                                                         *)
(***************************************************************************)
DEBUG_SCORING == TRUE

\* the length of the slice candidates[:20]
TopK == 20

\* item = meta; item['id'] = item_id; item['similarity_score'] = 1 - cosine_dist
item_of(row) ==
  [id |-> row.id, name |-> row.meta.name, maker |-> row.meta.maker,
   price |-> row.meta.price, ocr_lines |-> row.meta.ocr_lines,
   similarity_score |-> 1000 - row.cosine]

\* the score of one item when the fuzzy loop finds n pairs
final_score(item, hints, texts, W, n) ==
  IF DEBUG_SCORING
  THEN calculate_score_with_debug(item, hints, texts, W, n).score
  ELSE calculate_final_score(item, hints, texts, W, n).score

\* the body of the for loop: item['final_score'] = final_score
ScoredItem(item, hints, texts, W) ==
  { item @@ [final_score |-> final_score(item, hints, texts, W, n)] :
      n \in FuzzyOutcomes(texts, item, W) }

RECURSIVE ScoreAll(_, _, _, _)
\* the candidates lists the for loop can build from the rows
ScoreAll(rows, hints, texts, W) ==
  IF rows = <<>> THEN { <<>> }
  ELSE { <<c>> \o rest : c \in ScoredItem(item_of(Head(rows)), hints, texts, W),
                         rest \in ScoreAll(Tail(rows), hints, texts, W) }

\* a < b for two scores
Below(a, b) ==
  IF a.den = b.den THEN a.num < b.num ELSE a.num * b.den < b.num * a.den

\* InsertDescending, had equal keys not kept their order
InsertBeforeTies(sorted, x) ==
  LET k == Cardinality({i \in 1..Len(sorted) :
                          Below(x.final_score, sorted[i].final_score)})
  IN SubSeq(sorted, 1, k) \o <<x>> \o SubSeq(sorted, k + 1, Len(sorted))

\* x placed behind the last element that is not below it
InsertDescending(sorted, x) ==
  LET k == Cardinality({i \in 1..Len(sorted) :
                          ~Below(sorted[i].final_score, x.final_score)})
  IN SubSeq(sorted, 1, k) \o <<x>> \o SubSeq(sorted, k + 1, Len(sorted))

RECURSIVE SortInto(_, _)
SortInto(sorted, rest) ==
  IF rest = <<>> THEN sorted
  ELSE SortInto(InsertDescending(sorted, Head(rest)), Tail(rest))

\* candidates.sort(key=lambda x: x['final_score'], reverse=True): the sort
\* of Python lists, which keeps elements of equal key in their order
sort_descending(list) == SortInto(<<>>, list)

\* top_20, had a minimum score been asked of the candidates
top_20_cutoff(list) ==
  SubSeq(SelectSeq(list, LAMBDA c : c.final_score.num > 0), 1,
         Min(Len(SelectSeq(list, LAMBDA c : c.final_score.num > 0)), TopK))

\* top_20 = candidates[:20]
top_20(list) == SubSeq(list, 1, Min(Len(list), TopK))

Success(full_ocr_text, results) ==
  [status |-> "success", detected_text |-> full_ocr_text, results |-> results]

\* raise HTTPException(status_code=500, detail=str(e))
Http500 == [status |-> "error", detected_text |-> <<>>, results |-> <<>>]

\* an exception outside the try block: the framework answers 500 itself
Unhandled == [status |-> "unhandled", detected_text |-> <<>>, results |-> <<>>]

\* how far the handler got: the response it is about to give, and what it
\* has read, retrieved and scored
Progress(resp, texts, retr, cands, ranked) ==
  [response |-> resp, detected_texts |-> texts, retrieved |-> retr,
   candidates |-> cands, ranked |-> ranked]

\* step 6: sort, slice, build response_payload
Ranked(cands, texts, rows) ==
  Progress(Success(Join(texts), top_20(sort_descending(cands))),
           texts, [queried |-> TRUE, entries |-> rows],
           sort_descending(cands), TRUE)

\* Reranked, had the handler gone on to ids_list[0] of an empty result
RerankedUnchecked(hints, texts, rows) ==
  IF rows = <<>>
  THEN { Progress(Http500, texts, [queried |-> TRUE, entries |-> <<>>], <<>>, FALSE) }
  ELSE { Ranked(cands, texts, rows) : cands \in ScoreAll(rows, hints, texts, WEIGHTS) }

\* step 5 on: nothing retrieved is a success with no results, returned
\* before anything is scored or written
Reranked(hints, texts, rows) ==
  IF rows = <<>>
  THEN { Progress(Success(Join(texts), <<>>), texts,
                  [queried |-> TRUE, entries |-> <<>>], <<>>, FALSE) }
  ELSE { Ranked(cands, texts, rows) : cands \in ScoreAll(rows, hints, texts, WEIGHTS) }

\* steps 1 to 6 of the try block, from the read of the upload on.  Image.open
\* raises on an upload that does not decode; ocr.predict and
\* collection.query raise on a handle that is None; model.encode and
\* collection.query may raise on their own.
Rerank(hints, upload, query) ==
  IF ~upload.image_ok \/ ~ocr
  THEN { Progress(Http500, <<>>, NotQueried, <<>>, FALSE) }
  ELSE IF ~collection \/ query.raised
  THEN { Progress(Http500, upload.texts, NotQueried, <<>>, FALSE) }
  ELSE Reranked(hints, upload.texts, query.entries)

\* with open(RESPONSE_JSON_PATH, "w") as f: json.dump(response_payload, f)
\* and return response_payload; an exception of either goes to the except
Respond(p, write) ==
  IF ~p.ranked \/ write = "written" THEN p.response ELSE Http500

\* response.json after the handler
Snapshot(p, write, old) ==
  IF ~p.ranked \/ write = "open_raises" THEN old
  ELSE IF write = "written" THEN [kind |-> "payload", payload |-> p.response]
  ELSE [kind |-> "partial"]

Init ==
  /\ ImportModule
  /\ RequestIdle
  /\ probe = CHOOSE p \in [item : ItemChoices, user_inputs : {NoHints},
                           detected_texts : {<<>>}] : TRUE
  /\ run = NoRun
  /\ before = [done |-> FALSE]

\* a request arrives: the handler runs up to `await file.read()`.  An
\* exception of initialize_models() is outside the try block.
Receive ==
  /\ pc = "idle"
  /\ \E hints \in RequestHints, h \in initialize_models(model, ocr, client, collection) :
       /\ model' = h.model /\ ocr' = h.ocr
       /\ client' = h.client /\ collection' = h.collection
       /\ user_inputs' = hints
       /\ pc' = IF h.raised THEN "responded" ELSE "reading"
       /\ response' = IF h.raised THEN Unhandled ELSE response
  /\ UNCHANGED <<environ, WEIGHTS, snapshot, detected_texts, retrieved, candidates,
                 scorer>>

\* the upload has been read: the rest of the handler
Search ==
  /\ pc = "reading"
  /\ \E upload \in Uploads, query \in QueryOutcomes :
       \E p \in Rerank(user_inputs, upload, query) :
         \E write \in WriteOutcomes :
           /\ detected_texts' = p.detected_texts
           /\ retrieved' = p.retrieved
           /\ candidates' = p.candidates
           /\ response' = Respond(p, write)
           /\ snapshot' = Snapshot(p, write, snapshot)
  /\ pc' = "responded"
  /\ UNCHANGED <<environ, WEIGHTS, model, ocr, client, collection, user_inputs,
                 scorer>>

\* the response is out; the payload response.json holds is now an older one
NextRequest ==
  /\ pc = "responded"
  /\ pc' = "idle"
  /\ user_inputs' = NoHints
  /\ detected_texts' = <<>>
  /\ retrieved' = NotQueried
  /\ candidates' = <<>>
  /\ response' = NoResponse
  /\ snapshot' = IF snapshot.kind = "payload" THEN [kind |-> "older"] ELSE snapshot
  /\ UNCHANGED <<environ, WEIGHTS, model, ocr, client, collection, scorer>>

Next == Receive \/ Search \/ NextRequest

Spec == Init /\ [][Next]_vars

(***************************************************************************)
(* Configuration on its own: the module imported under an environment and  *)
(* a .env file, and imported again with one variable changed.              *)
(***************************************************************************)
RECURSIVE _load_env_file(_, _)
\* os.environ.setdefault(key, value) for every `key=value` line of .env, in
\* order: a variable the process has, or an earlier line set, stays.  A line
\* is <<key, value>>; the lines without '=' and the comments are skipped.
_load_env_file(env, lines) ==
  IF lines = <<>> THEN env
  ELSE _load_env_file(
         IF Head(lines)[1] \in EnvKeys /\ ~env[Head(lines)[1]].set
         THEN [env EXCEPT ![Head(lines)[1]] = Text(Head(lines)[2])]
         ELSE env,
         Tail(lines))

\* the texts of a variable: '', 'abc', '0.2', '1.5', '10', '-3', ' 7 ', '1.2.3'
ConfigTexts ==
  { <<>>, s_abc, <<70, 81, 72>>, <<71, 81, 75>>, <<71, 70>>, <<80, 73>>,
    <<0, 77, 0>>, <<71, 81, 72, 81, 73>> }

\* the environments of the process: no variable, or one
ConfigEnvs ==
  { EmptyEnv } \cup { EnvWith({<<k, t>>}) : k \in EnvKeys, t \in ConfigTexts }

\* the .env files: none; one whose first line is not a number and whose
\* second repeats the key; one with a comment and a threshold
DotEnvs ==
  { <<>>,
    << <<"MONOLOG_BRAND_BONUS", s_abc>>, <<"MONOLOG_BRAND_BONUS", <<70, 81, 72>> >> >>,
    << <<"#", <<>> >>, <<"MONOLOG_OCR_THRESHOLD_GOOD", <<71, 70>> >>,
       <<"MONOLOG_NAME_BONUS", <<70, 81, 72>> >> >> }

\* module import: _load_env_file(), then the weights read from os.environ
ConfigInit ==
  /\ \E env \in ConfigEnvs, lines \in DotEnvs :
       /\ environ = _load_env_file(env, lines)
       /\ probe = [environ |-> env, dotenv |-> lines]
  /\ WEIGHTS = load_weights(environ)
  /\ model = FALSE /\ ocr = FALSE /\ client = FALSE /\ collection = FALSE
  /\ snapshot = NoSnapshot
  /\ RequestIdle
  /\ run = NoRun
  /\ before = [done |-> FALSE]

\* the module imported in a new process whose environment differs in key
Reimport ==
  /\ ~before.done
  /\ \E key \in EnvKeys, t \in ConfigTexts :
       /\ environ' = [environ EXCEPT ![key] = Text(t)]
       /\ before' = [done |-> TRUE, change |-> "setenv", key |-> key,
                     environ |-> environ, WEIGHTS |-> WEIGHTS]
  /\ WEIGHTS' = load_weights(environ')
  /\ UNCHANGED <<model, ocr, client, collection, snapshot, request, probe, run>>

SpecConfig == ConfigInit /\ [][Reimport]_vars

(***************************************************************************)
(* similarity() on its own, applied to two drawn strings.                  *)
(***************************************************************************)
\* the longest string drawn
MaxSimLen == 3

\* the strings over a, b, c and A of at most MaxSimLen characters
SimTexts == UNION {[1..k -> {1, 2, 3, 31}] : k \in 0..MaxSimLen}

\* str.swapcase(): the same string in the other letter case
SwapCase(s) ==
  [i \in 1..Len(s) |-> IF s[i] >= 1 /\ s[i] <= 26 THEN s[i] + 30
                       ELSE IF s[i] >= 31 /\ s[i] <= 56 THEN s[i] - 30
                       ELSE s[i]]

SimInit ==
  /\ environ = EmptyEnv
  /\ WEIGHTS = load_weights(environ)
  /\ model = FALSE /\ ocr = FALSE /\ client = FALSE /\ collection = FALSE
  /\ snapshot = NoSnapshot
  /\ RequestIdle
  /\ probe \in [a : SimTexts, b : SimTexts]
  /\ run = NoRun
  /\ before = [done |-> FALSE]

\* similarity(a, b), similarity(b, a), and similarity of a in the other case
Compare ==
  /\ ~run.done
  /\ run' = [done |-> TRUE,
             ab |-> similarity(probe.a, probe.b),
             ba |-> similarity(probe.b, probe.a),
             swapped |-> similarity(SwapCase(probe.a), probe.b)]
  /\ UNCHANGED <<globals, request, probe, before>>

SpecSim == SimInit /\ [][Compare]_vars

(***************************************************************************)
(* The price filter on its own: price hints and candidate prices around    *)
(* the two thresholds, no other hint and no detected text.                 *)
(***************************************************************************)
PriceEnvs ==
  { EmptyEnv,
    \* PRICE_THRESHOLD_10PCT=7
    EnvWith({ <<"MONOLOG_PRICE_THRESHOLD_10PCT", <<77>> >> }),
    \* PRICE_THRESHOLD_20PCT=100
    EnvWith({ <<"MONOLOG_PRICE_THRESHOLD_20PCT", <<71, 70, 70>> >> }),
    \* PRICE_THRESHOLD_10PCT=20, PRICE_THRESHOLD_20PCT=10, PRICE_BONUS_20PCT=0.3
    EnvWith({ <<"MONOLOG_PRICE_THRESHOLD_10PCT", <<72, 70>> >>,
              <<"MONOLOG_PRICE_THRESHOLD_20PCT", <<71, 70>> >>,
              <<"MONOLOG_PRICE_BONUS_20PCT", <<70, 81, 73>> >> }) }

\* item['price'] of the candidates drawn
ItemPrices ==
  { IntPrice(n) : n \in {0, 80, 89, 90, 93, 100, 107, 110, 111, 120, 121, 200} }
  \cup { StrPrice(s_abc), StrPrice(<<71, 71, 70>>), NoPrice }

\* the price hints: none, '', 'abc', '0', '-5', '100', ' 100 ', '200'
PriceTexts ==
  { Absent, Text(<<>>), Text(s_abc), Text(<<70>>), Text(<<80, 75>>), Text(s_100),
    Text(<<0>> \o s_100 \o <<0>>), Text(<<72, 70, 70>>) }

PriceInit ==
  /\ environ \in PriceEnvs
  /\ WEIGHTS = load_weights(environ)
  /\ model = FALSE /\ ocr = FALSE /\ client = FALSE /\ collection = FALSE
  /\ snapshot = NoSnapshot
  /\ RequestIdle
  /\ probe \in [item : {[name |-> <<>>, maker |-> <<>>, price |-> c,
                        ocr_lines |-> NoOcrLines, similarity_score |-> 500] :
                          c \in ItemPrices},
                user_inputs : {[NoHints EXCEPT !.price = t] : t \in PriceTexts},
                detected_texts : {<<>>}]
  /\ run = NoRun
  /\ before = [done |-> FALSE]

SpecPrice == PriceInit /\ [][Score]_vars

(***************************************************************************)
(* The scorers with the calls of similarity() they make written down:      *)
(* short tokens, short makers and names, and detected tokens that compete  *)
(* for one db word.                                                        *)
(***************************************************************************)
s_ab == <<1, 2>>
s_ac == <<1, 3>>

\* a call similarity(a, b) and the filter that made it
Call(caller, a, b) == [caller |-> caller, a |-> a, b |-> b]

\* the words the loop `for word in detected_texts` reaches: all of them, or
\* those up to the one it breaks at
Reached(words, k) == SubSeq(words, 1, IF k = 0 THEN Len(words) ELSE k)

\* for word in detected_texts:
\*   if len(word) >= 3 and similarity(word, target) >= SIMILARITY_THRESHOLD
WordCalls(caller, words, target, W) ==
  { Call(caller, w, target) :
      w \in { x \in Range(Reached(words, FirstFuzzy(words, target,
                                                    W.similarity_threshold, 1))) :
                Len(x) >= 3 } }

\* the calls of [filter 1-2]: the elif branch of the OCR brand path
BrandCalls(item, hints, texts, W) ==
  IF /\ ~BrandHint(item, hints) /\ texts # <<>>
     /\ item.maker # <<>> /\ ~Contains(Join(texts), item.maker)
  THEN WordCalls("brand", texts, item.maker, W)
  ELSE {}

\* the calls of [filter 2]: the elif branch of the OCR name path
NameCalls(item, hints, texts, W) ==
  IF /\ ~NameHint(item, hints) /\ texts # <<>>
     /\ item.name # <<>> /\ ~NameExact(item.name, texts)
  THEN WordCalls("name", texts, item.name, W)
  ELSE {}

\* the db words the inner loop reaches for one detected word: those up to the
\* one at position j it breaks at, the short ones skipped
Tried(dbOrder, j) == { w \in Range(Reached(dbOrder, j)) : Len(w) >= 3 }

RECURSIVE FuzzyCalls(_, _, _)
\* the calls of the two loops of _calculate_ocr_match_score
FuzzyCalls(detOrder, dbOrder, th) ==
  IF detOrder = <<>> THEN {}
  ELSE IF Len(Head(detOrder)) < 3 THEN FuzzyCalls(Tail(detOrder), dbOrder, th)
  ELSE { Call("ocr", Head(detOrder), w) :
           w \in Tried(dbOrder, FirstSimilar(Head(detOrder), dbOrder, th, 1)) }
       \cup FuzzyCalls(Tail(detOrder),
                       IF FirstSimilar(Head(detOrder), dbOrder, th, 1) = 0
                       THEN dbOrder
                       ELSE RemoveAt(dbOrder,
                                     FirstSimilar(Head(detOrder), dbOrder, th, 1)),
                       th)

\* one run with its calls, the two sets being iterated in the orders d and b
Traced(p, W, d, b) ==
  Run(p, W, FuzzyPairs(d, b, W.similarity_threshold))
    @@ [calls |-> BrandCalls(p.item, p.user_inputs, p.detected_texts, W)
                  \cup NameCalls(p.item, p.user_inputs, p.detected_texts, W)
                  \cup (IF p.detected_texts # <<>>
                        THEN FuzzyCalls(d, b, W.similarity_threshold) ELSE {}),
        exact |-> Cardinality(detected_set(p.detected_texts) \cap db_set(p.item))]

TracedRuns(p, W) ==
  { Traced(p, W, d, b) :
      d \in Perms(detected_set(p.detected_texts) \ db_set(p.item)),
      b \in Perms(db_set(p.item) \ detected_set(p.detected_texts)) }

OcrItems ==
  { [name |-> s_abcdf, maker |-> <<>>, price |-> NoPrice,
     ocr_lines |-> NoOcrLines, similarity_score |-> 500],
    [name |-> s_ab, maker |-> s_ac, price |-> NoPrice,
     ocr_lines |-> NoOcrLines, similarity_score |-> 500],
    [name |-> s_abcdf \o <<0>> \o s_abcdex, maker |-> s_nissin, price |-> NoPrice,
     ocr_lines |-> JsonOcrLines(<< s_ab \o <<0>> \o s_abcde >>),
     similarity_score |-> 500],
    [name |-> <<>>, maker |-> <<>>, price |-> NoPrice,
     ocr_lines |-> MalformedOcrLines, similarity_score |-> 500] }

OcrTokens == { s_abcde, s_abcdfy, s_abc, s_ab, s_HISSIN }

OcrInit ==
  /\ environ \in { EmptyEnv,
                   \* SIMILARITY_THRESHOLD=0.5
                   EnvWith({ <<"MONOLOG_SIMILARITY_THRESHOLD", <<70, 81, 75>> >> }) }
  /\ WEIGHTS = load_weights(environ)
  /\ model = FALSE /\ ocr = FALSE /\ client = FALSE /\ collection = FALSE
  /\ snapshot = NoSnapshot
  /\ RequestIdle
  /\ probe \in [item : OcrItems, user_inputs : {NoHints},
                detected_texts : SeqsUpTo(OcrTokens, MaxDetected)]
  /\ run = NoRun
  /\ before = [done |-> FALSE]

\* one call of each scorer
ScoreTraced ==
  /\ ~run.done
  /\ run' \in TracedRuns(probe, WEIGHTS)
  /\ UNCHANGED <<globals, request, probe, before>>

SpecOcr == OcrInit /\ [][ScoreTraced]_vars

(***************************************************************************)
(* Several requests in flight.  search_by_image is a coroutine on one      *)
(* event loop: it runs without interruption up to `await file.read()`, its *)
(* only await, and from there to its end; other requests run in between.   *)
(* Here pc, user_inputs, detected_texts, retrieved, candidates and         *)
(* response hold one value per request in flight, and run counts the       *)
(* constructor calls of initialize_models that returned.                    *)
(***************************************************************************)
\* the requests that can be in flight together
MaxClients == 2
Clients == 1..MaxClients

\* the count the constructions are followed up to
MaxBuilt == 2

\* what collection.query does for the requests in flight
FewQueries ==
  { [raised |-> TRUE, entries |-> <<>>],
    [raised |-> FALSE, entries |-> <<>>],
    [raised |-> FALSE, entries |-> Retrieval(<< Row(item_cup, 180, 300) >>, 1)] }

\* the constructors that returned in a call of initialize_models: the call
\* went into the if block (the model handle was None before it; only such a
\* call raises) and the handle is set after it
Constructed(was, h) ==
  [model |-> (~was \/ h.raised) /\ h.model,
   ocr |-> (~was \/ h.raised) /\ h.model /\ h.ocr,
   client |-> (~was \/ h.raised) /\ h.ocr /\ h.client,
   collection |-> (~was \/ h.raised) /\ h.client /\ h.collection]

Counted(built, constructed) ==
  [k \in DOMAIN built |-> IF constructed[k] THEN Min(built[k] + 1, MaxBuilt) ELSE built[k]]

ClientsInit ==
  /\ environ = EmptyEnv
  /\ WEIGHTS = load_weights(environ)
  /\ model = FALSE /\ ocr = FALSE /\ client = FALSE /\ collection = FALSE
  /\ snapshot = NoSnapshot
  /\ pc = [c \in Clients |-> "idle"]
  /\ user_inputs = [c \in Clients |-> NoHints]
  /\ detected_texts = [c \in Clients |-> <<>>]
  /\ retrieved = [c \in Clients |-> NotQueried]
  /\ candidates = [c \in Clients |-> <<>>]
  /\ response = [c \in Clients |-> NoResponse]
  /\ probe = CHOOSE p \in [item : ItemChoices, user_inputs : {NoHints},
                           detected_texts : {<<>>}] : TRUE
  /\ run = [done |-> FALSE,
            built |-> [model |-> 0, ocr |-> 0, client |-> 0, collection |-> 0]]
  /\ before = [done |-> FALSE]

\* request c arrives: initialize_models() and the handler up to its await
Arrive(c) ==
  /\ pc[c] = "idle"
  /\ \E h \in initialize_models(model, ocr, client, collection) :
       /\ run' = [run EXCEPT !.built = Counted(run.built, Constructed(model, h))]
       /\ model' = h.model /\ ocr' = h.ocr
       /\ client' = h.client /\ collection' = h.collection
       /\ pc' = [pc EXCEPT ![c] = IF h.raised THEN "responded" ELSE "reading"]
       /\ response' = [response EXCEPT ![c] = IF h.raised THEN Unhandled ELSE @]
  /\ UNCHANGED <<environ, WEIGHTS, snapshot, user_inputs, detected_texts, retrieved,
                 candidates, probe, before>>

\* file.read() of request c has returned: the rest of its handler
Resume(c) ==
  /\ pc[c] = "reading"
  /\ \E upload \in Uploads, query \in FewQueries :
       \E p \in Rerank(user_inputs[c], upload, query) :
         \E write \in WriteOutcomes :
           /\ detected_texts' = [detected_texts EXCEPT ![c] = p.detected_texts]
           /\ retrieved' = [retrieved EXCEPT ![c] = p.retrieved]
           /\ candidates' = [candidates EXCEPT ![c] = p.candidates]
           /\ response' = [response EXCEPT ![c] = Respond(p, write)]
           /\ snapshot' = Snapshot(p, write, snapshot)
  /\ pc' = [pc EXCEPT ![c] = "responded"]
  /\ UNCHANGED <<environ, WEIGHTS, model, ocr, client, collection, user_inputs,
                 scorer>>

\* the response of request c is out, and another request may come
Leave(c) ==
  /\ pc[c] = "responded"
  /\ pc' = [pc EXCEPT ![c] = "idle"]
  /\ detected_texts' = [detected_texts EXCEPT ![c] = <<>>]
  /\ retrieved' = [retrieved EXCEPT ![c] = NotQueried]
  /\ candidates' = [candidates EXCEPT ![c] = <<>>]
  /\ response' = [response EXCEPT ![c] = NoResponse]
  /\ snapshot' = IF snapshot.kind = "payload" THEN [kind |-> "older"] ELSE snapshot
  /\ UNCHANGED <<environ, WEIGHTS, model, ocr, client, collection, user_inputs,
                 scorer>>

ClientsNext == \E c \in Clients : Arrive(c) \/ Resume(c) \/ Leave(c)

SpecClients == ClientsInit /\ [][ClientsNext]_vars

(***************************************************************************)
(* The properties.                                                         *)
(***************************************************************************)
\* a score num / den that lies in [0, 1]
InUnit(score) == score.den > 0 /\ 0 <= score.num /\ score.num <= score.den

\* C1: the final_score that calculate_final_score and
\* calculate_score_with_debug return, and the final_score stored on every
\* item of the search response, lies in [0, 1].
C1_FinalScoreInUnit ==
  /\ run.done => InUnit(run.final.score) /\ InUnit(run.debug.score)
  /\ \A i \in 1..Len(candidates) : InUnit(candidates[i].final_score)
  /\ \A i \in 1..Len(response.results) : InUnit(response.results[i].final_score)

\* C2: two scoring runs on the same candidate, hints, detected text and
\* weights yield the same final_score and the same breakdown, OCR match
\* ratio included, whatever the order the two token sets are iterated in.
C2_Deterministic ==
  (before.done /\ before.change = "none") =>
    /\ run.final.score = before.run.final.score
    /\ run.debug.score = before.run.debug.score
    /\ run.debug.breakdown = before.run.debug.breakdown

\* new has every signal of old satisfied, and one more
MoreSatisfied(old, new) ==
  /\ old.brand_adds <= new.brand_adds
  /\ old.name_adds <= new.name_adds
  /\ old.price_tier # "none" => new.price_tier # "none"
  /\ \/ old.brand_adds < new.brand_adds
     \/ old.name_adds < new.name_adds
     \/ old.price_tier = "none" /\ new.price_tier # "none"

\* C3 as stated: when the inputs change so that one more signal is satisfied
\* and everything else is the same, final_score is not lower than before
\* (here for two runs whose fuzzy pairing found equally many pairs, so that
\* the iteration order plays no part).
C3_Monotone ==
  (/\ before.done /\ before.change # "none"
   /\ run.fuzzy_count = before.run.fuzzy_count
   /\ MoreSatisfied(before.run.final, run.final)) =>
    ~Below(run.final.score, before.run.final.score)

\* C3, amended: giving a hint where there was none, or a maker where the
\* candidate had none, never yields a lower final_score than before, unless
\* the OCR match bonus of the candidate is lower than before.
C3_MonotoneUnlessOcrDrops ==
  (/\ before.done /\ before.change # "none"
   /\ run.final.ocr_bonus >= before.run.final.ocr_bonus) =>
    ~Below(run.final.score, before.run.final.score)

\* a brand hint that makes the brand match, and raises the score
C3_BrandNowMatches ==
  /\ before.done /\ before.change = "brand"
  /\ before.run.final.brand_adds = 0 /\ run.final.brand_adds = 1
  /\ run.final.ocr_bonus = before.run.final.ocr_bonus
  /\ Below(before.run.final.score, run.final.score)

\* C4: for one candidate the brand bonus is added to bonus_score zero times
\* or once, also when both the hint path and the OCR path would match, and
\* so is the name bonus; bonus_score is the sum of what the four filters
\* added.
C4_AtMostOnce ==
  run.done =>
    /\ run.final.brand_adds \in {0, 1} /\ run.final.name_adds \in {0, 1}
    /\ run.debug.brand_adds \in {0, 1} /\ run.debug.name_adds \in {0, 1}
    /\ run.final.bonus_score
         = run.final.brand_adds * WEIGHTS.brand_bonus
           + run.final.name_adds * WEIGHTS.name_bonus
           + run.final.price_bonus + run.final.ocr_bonus
    /\ run.debug.breakdown.brand = run.debug.brand_adds * WEIGHTS.brand_bonus
    /\ run.debug.breakdown.name = run.debug.name_adds * WEIGHTS.name_bonus
    /\ run.debug.bonus_score
         = run.debug.breakdown.brand + run.debug.breakdown.name
           + run.debug.breakdown.price + run.debug.breakdown.ocr

\* the brand hint matches, the OCR path would match as well, and so do the
\* name hint and the OCR name path
C4_BothPathsMatch ==
  /\ run.done
  /\ BrandHint(probe.item, probe.user_inputs)
  /\ BrandOcrAdds(probe.item, probe.detected_texts, WEIGHTS) = 1
  /\ NameHint(probe.item, probe.user_inputs)
  /\ NameOcrAdds(probe.item, probe.detected_texts, WEIGHTS) = 1
  /\ probe.detected_texts # <<>>
  /\ run.final.brand_adds = 1 /\ run.final.name_adds = 1
  /\ WEIGHTS.brand_bonus > 0

\* the bonus of the tier a match ratio num / den (a percentage) falls in,
\* every tier's lower boundary included
TierOf(ratio, W) ==
  IF ratio.num >= W.ocr_threshold_good * ratio.den THEN W.ocr_bonus_good
  ELSE IF ratio.num >= W.ocr_threshold_fair * ratio.den THEN W.ocr_bonus_fair
  ELSE IF ratio.num >= W.ocr_threshold_minimum * ratio.den THEN W.ocr_bonus_poor
  ELSE 0

\* C5 as stated: _calculate_ocr_match_score returns ocr_bonus_good when
\* match_ratio >= ocr_threshold_good, otherwise ocr_bonus_fair when
\* match_ratio >= ocr_threshold_fair, otherwise ocr_bonus_poor when
\* match_ratio >= ocr_threshold_minimum, otherwise 0.
C5_TierMapping ==
  (run.done /\ run.ocr.called) =>
    run.ocr.bonus = TierOf(run.ocr.match_ratio, WEIGHTS)

\* C5, amended: that mapping holds when both the detected-token set and the
\* catalog-token set are non-empty; when either is empty the function
\* returns match ratio 0 and bonus 0 whatever the thresholds.
C5_TierMappingNonEmpty ==
  (run.done /\ run.ocr.called) =>
    IF detected_set(probe.detected_texts) = {} \/ db_set(probe.item) = {}
    THEN run.ocr.match_ratio.num = 0 /\ run.ocr.bonus = 0
    ELSE run.ocr.bonus = TierOf(run.ocr.match_ratio, WEIGHTS)

\* a match ratio equal to ocr_threshold_good, paid as good
C5_AtGoodBoundary ==
  /\ run.done /\ run.ocr.called
  /\ db_set(probe.item) # {}
  /\ run.ocr.match_ratio.num = WEIGHTS.ocr_threshold_good * run.ocr.match_ratio.den
  /\ run.ocr.bonus = WEIGHTS.ocr_bonus_good
  /\ WEIGHTS.ocr_bonus_good # WEIGHTS.ocr_bonus_fair

\* C6: two candidates of the results list with equal final_score are in the
\* order in which the retrieval returned them (ids are retrieval positions).
C6_RankingStable ==
  \A i, j \in 1..Len(response.results) :
    (i < j /\ response.results[i].final_score = response.results[j].final_score)
      => response.results[i].id < response.results[j].id

\* a results list with a tie, and with a candidate ranked above one that was
\* retrieved before it
C6_TieAfterReorder ==
  /\ response.status = "success"
  /\ \E i, j \in 1..Len(response.results) :
       i < j /\ response.results[i].final_score = response.results[j].final_score
  /\ \E i, j \in 1..Len(response.results) :
       i < j /\ response.results[i].id > response.results[j].id

\* C7: for n retrieved candidates the results list has min(n, 20) entries,
\* is non-increasing in final_score, and leaves out no candidate with a
\* final_score strictly above an included one; with n <= 20 every candidate
\* is in it, however low its score.
C7_TopK ==
  (response.status = "success" /\ retrieved.queried) =>
    /\ Len(response.results) = Min(Len(retrieved.entries), 20)
    /\ \A i \in 1..Len(response.results) :
         \E k \in 1..Len(candidates) : candidates[k] = response.results[i]
    /\ \A i, j \in 1..Len(response.results) :
         i < j => /\ response.results[i].id # response.results[j].id
                  /\ ~Below(response.results[i].final_score,
                            response.results[j].final_score)
    /\ \A k \in 1..Len(candidates) :
         (\A i \in 1..Len(response.results) : response.results[i].id # candidates[k].id)
           => \A i \in 1..Len(response.results) :
                ~Below(response.results[i].final_score, candidates[k].final_score)
    /\ Len(retrieved.entries) <= 20 =>
         {response.results[i].id : i \in 1..Len(response.results)}
           = 1..Len(retrieved.entries)

\* more than 20 retrieved: an included candidate with a score of 0 or less,
\* and one left out whose score is below that of the first
C7_MoreThanTwenty ==
  /\ response.status = "success"
  /\ Len(retrieved.entries) > 20
  /\ Len(response.results) = 20
  /\ \E i \in 1..20 : response.results[i].final_score.num <= 0
  /\ \E k \in 1..Len(candidates) :
       /\ \A i \in 1..20 : response.results[i].id # candidates[k].id
       /\ Below(candidates[k].final_score, response.results[1].final_score)

\* the formula of the score, in millionths: raw / max_possible capped at 1
\* when max_possible > 0, and 0 otherwise
FormulaScore(base_similarity, bonus_score, base_score_weight, max_bonus) ==
  IF 1000 * base_score_weight + max_bonus * (1000 - base_score_weight) > 0
  THEN [num |-> Min(base_similarity * base_score_weight
                      + bonus_score * (1000 - base_score_weight),
                    1000 * base_score_weight + max_bonus * (1000 - base_score_weight)),
        den |-> 1000 * base_score_weight + max_bonus * (1000 - base_score_weight)]
  ELSE [num |-> 0, den |-> 1]

\* every signal of the run at its top tier
AllTopTier ==
  /\ run.final.brand_adds = 1 /\ run.final.name_adds = 1
  /\ run.final.price_tier = "near"
  /\ run.final.ocr_bonus = WEIGHTS.ocr_bonus_good

\* C8: with bonus_weight = 1 - base_score_weight and max_possible =
\* base_score_weight + max_bonus * bonus_weight, the score returned is
\* min((base_similarity * base_score_weight + bonus_score * bonus_weight)
\* / max_possible, 1.0) when max_possible > 0 and 0.0 otherwise; default
\* weights, base similarity 0.70 and four signals at their top tier give
\* 0.525 / 0.615.
C8_ScoreFormula ==
  run.done =>
    /\ run.final.score
         = FormulaScore(probe.item.similarity_score, run.final.bonus_score,
                        WEIGHTS.base_score_weight,
                        WEIGHTS.brand_bonus + WEIGHTS.name_bonus
                          + WEIGHTS.ocr_bonus_good + WEIGHTS.price_bonus_10pct)
    /\ run.debug.score
         = FormulaScore(probe.item.similarity_score, run.debug.bonus_score,
                        WEIGHTS.base_score_weight,
                        WEIGHTS.brand_bonus + WEIGHTS.name_bonus
                          + WEIGHTS.ocr_bonus_good + WEIGHTS.price_bonus_10pct)
    /\ (environ = EmptyEnv /\ probe.item.similarity_score = 700 /\ AllTopTier)
         => run.final.score = [num |-> 525000, den |-> 615000]

\* the worked example: default weights, base similarity 0.70, four signals
\* at their top tier
C8_WorkedExample ==
  /\ run.done /\ environ = EmptyEnv
  /\ probe.item.similarity_score = 700 /\ AllTopTier
  /\ run.final.bonus_score = 450

\* C9: when the retrieval returns no candidates, search_by_image answers
\* with status "success" and an empty results list, not with an error.
C9_EmptyRetrieval ==
  (pc = "responded" /\ retrieved.queried /\ retrieved.entries = <<>>) =>
    response.status = "success" /\ response.results = <<>>

\* an upload with text on it for which nothing was retrieved
C9_NothingRetrieved ==
  /\ pc = "responded" /\ retrieved.queried /\ retrieved.entries = <<>>
  /\ detected_texts # <<>>
  /\ response = Success(Join(detected_texts), <<>>)

\* a price hint is given, and the hint or the candidate's price does not
\* parse as an integer
PriceUnparsable(p) ==
  /\ Truthy(p.user_inputs.price)
  /\ ~ParseInt(p.user_inputs.price.text).ok \/ ~ItemPrice(p.item).ok

\* C10: when the price hint or the candidate price does not parse as an
\* integer, the price signal contributes 0, no error is raised, and the
\* brand, name and OCR contributions and the score are those of the same
\* call without a price hint.
C10_LenientPrice ==
  (run.done /\ PriceUnparsable(probe)) =>
    /\ ~run.final.raised /\ ~run.debug.raised
    /\ run.final.price_bonus = 0 /\ run.debug.breakdown.price = 0
    /\ run.final
         = calculate_final_score(probe.item,
                                 [probe.user_inputs EXCEPT !.price = Absent],
                                 probe.detected_texts, WEIGHTS, run.fuzzy_count)
    /\ run.debug
         = calculate_score_with_debug(probe.item,
                                      [probe.user_inputs EXCEPT !.price = Absent],
                                      probe.detected_texts, WEIGHTS, run.fuzzy_count)

\* the price hint "abc" on a candidate whose brand and name match
C10_HintAbc ==
  /\ run.done
  /\ probe.user_inputs.price = Text(s_abc)
  /\ ItemPrice(probe.item).ok
  /\ run.final.brand_adds = 1 /\ run.final.name_adds = 1
  /\ run.final.price_bonus = 0

\* a numeric price hint on a candidate whose price is not a number
C10_ItemPriceUnparsable ==
  /\ run.done
  /\ probe.user_inputs.price = Text(s_100)
  /\ ~ItemPrice(probe.item).ok
  /\ run.final.price_bonus = 0 /\ run.final.bonus_score > 0

\* C11: a request fails only on a decode or inference error (image decode,
\* OCR, embedding, retrieval, initialization on first use), and such an error
\* reaches the caller as an error status; the bare 500 the framework gives
\* for an exception of initialize_models() is counted as one.  A request
\* whose retrieval returned is past every one of these steps.
C11_OnlyInferenceFailures ==
  pc = "responded" =>
    /\ response.status \in {"success", "error", "unhandled"}
    /\ response.status = "success" <=> retrieved.queried

\* C12: a request whose scoring and ranking succeeded returns its success
\* payload, whether or not writing response.json raised.
C12_SnapshotBestEffort ==
  (pc = "responded" /\ retrieved.queried /\ retrieved.entries # <<>>) =>
    /\ Len(candidates) = Len(retrieved.entries)
    /\ response = Success(Join(detected_texts), top_20(candidates))

\* the weight keys: variable, key of the dict, numeric type, documented
\* default (bonuses and the similarity threshold in thousandths)
ConfigTable ==
  { <<"MONOLOG_BASE_SCORE_WEIGHT", "base_score_weight", "float", 300>>,
    <<"MONOLOG_BRAND_BONUS", "brand_bonus", "float", 150>>,
    <<"MONOLOG_NAME_BONUS", "name_bonus", "float", 150>>,
    <<"MONOLOG_OCR_THRESHOLD_MINIMUM", "ocr_threshold_minimum", "int", 10>>,
    <<"MONOLOG_OCR_THRESHOLD_FAIR", "ocr_threshold_fair", "int", 30>>,
    <<"MONOLOG_OCR_THRESHOLD_GOOD", "ocr_threshold_good", "int", 60>>,
    <<"MONOLOG_OCR_BONUS_POOR", "ocr_bonus_poor", "float", 0>>,
    <<"MONOLOG_OCR_BONUS_FAIR", "ocr_bonus_fair", "float", 25>>,
    <<"MONOLOG_OCR_BONUS_GOOD", "ocr_bonus_good", "float", 50>>,
    <<"MONOLOG_PRICE_BONUS_10PCT", "price_bonus_10pct", "float", 100>>,
    <<"MONOLOG_PRICE_BONUS_20PCT", "price_bonus_20pct", "float", 50>>,
    <<"MONOLOG_PRICE_THRESHOLD_10PCT", "price_threshold_10pct", "int", 10>>,
    <<"MONOLOG_PRICE_THRESHOLD_20PCT", "price_threshold_20pct", "int", 20>>,
    <<"MONOLOG_SIMILARITY_THRESHOLD", "similarity_threshold", "float", 800>> }

\* the value of the variable of row e is absent, or not a number of its type
Unusable(env, e) ==
  \/ ~env[e[1]].set
  \/ e[3] = "float" /\ ~ParseFloat(env[e[1]].text).ok
  \/ e[3] = "int" /\ ~ParseInt(env[e[1]].text).ok

\* C13: for every weight key load_weights yields the documented default when
\* the environment value is absent or does not parse as the key's numeric
\* type; it never raises (every key is loaded, max_bonus is computed); and a
\* value that does not parse for one key leaves the value loaded for every
\* other key as it was.
C13_ConfigFallback ==
  /\ DOMAIN WEIGHTS = {e[2] : e \in ConfigTable} \cup {"max_bonus"}
  /\ \A e \in ConfigTable : Unusable(environ, e) => WEIGHTS[e[2]] = e[4]
  /\ WEIGHTS.max_bonus = WEIGHTS.brand_bonus + WEIGHTS.name_bonus
                           + WEIGHTS.ocr_bonus_good + WEIGHTS.price_bonus_10pct
  /\ before.done =>
       \A e \in ConfigTable : e[1] # before.key => WEIGHTS[e[2]] = before.WEIGHTS[e[2]]

\* a threshold whose value '1.5' is not an int falls back to its default
\* while a bonus read from .env keeps its value
C13_OneKeyFallsBack ==
  /\ before.done /\ before.key = "MONOLOG_OCR_THRESHOLD_FAIR"
  /\ environ["MONOLOG_OCR_THRESHOLD_FAIR"] = Text(<<71, 81, 75>>)
  /\ before.WEIGHTS.ocr_threshold_fair = 10
  /\ WEIGHTS.ocr_threshold_fair = 30
  /\ WEIGHTS.name_bonus = 200
  /\ probe.dotenv # <<>>

\* C14: for all strings a and b, similarity(a, b) is in [0, 1], equals
\* similarity(b, a), and is unchanged when the letter case of an argument is
\* changed.
C14_SimilarityContract ==
  run.done =>
    /\ InUnit(run.ab) /\ InUnit(run.ba)
    /\ run.ab.num * run.ba.den = run.ba.num * run.ab.den
    /\ run.swapped = run.ab

\* C15 as stated: when a candidate's ocr_lines is malformed JSON or absent,
\* the OCR-overlap signal contributes zero to that candidate's score.
C15_MalformedContributesZero ==
  (run.done /\ probe.item.ocr_lines.kind \in {"malformed", "absent"}) =>
    /\ run.final.ocr_bonus = 0
    /\ run.debug.breakdown.ocr = 0

\* the name and maker tokens of a candidate, as db_set has them
NameMakerSet(item) == LowerSet(Split(item.name) \o Split(item.maker))

\* C15, amended: when a candidate's ocr_lines is malformed JSON or absent, the
\* OCR-overlap signal raises no error and ocr_lines contributes no token to
\* it: the signal is the one computed from the candidate's name and maker
\* tokens alone, and is zero when the candidate has neither.
C15_MalformedAsEmpty ==
  (run.done /\ probe.item.ocr_lines.kind \in {"malformed", "absent"}) =>
    LET expected == OcrMatch(detected_set(probe.detected_texts),
                             NameMakerSet(probe.item), WEIGHTS, run.fuzzy_count)
    IN /\ run.ocr.called =>
            /\ run.ocr.match_ratio = expected.match_ratio
            /\ run.ocr.bonus = expected.bonus
            /\ run.final.ocr_bonus = expected.bonus
       /\ ~run.ocr.called => run.final.ocr_bonus = 0
       /\ NameMakerSet(probe.item) = {} => run.final.ocr_bonus = 0
       /\ run.debug.breakdown.ocr = run.final.ocr_bonus

\* a candidate whose ocr_lines does not parse earns an OCR bonus from its name
C15_MalformedStillScores ==
  /\ run.done /\ run.ocr.called
  /\ probe.item.ocr_lines.kind = "malformed"
  /\ s_nissin \in Range(probe.detected_texts)
  /\ run.final.ocr_bonus > 0

\* C16: the similarity_score placed on every candidate in search_by_image
\* is in [0, 1] and equals 1 minus the distance the retrieval provider
\* returned for that candidate.
C16_SimilarityFromProvider ==
  \A i \in 1..Len(candidates) :
    /\ 0 <= candidates[i].similarity_score
    /\ candidates[i].similarity_score <= 1000
    /\ candidates[i].similarity_score
         = 1000 - retrieved.entries[candidates[i].id].dist

\* the largest bonus each of the four signal categories can award
LargestBonuses(W) ==
  W.brand_bonus + W.name_bonus
    + Max(W.price_bonus_10pct, W.price_bonus_20pct)
    + Max(W.ocr_bonus_good, Max(W.ocr_bonus_fair, W.ocr_bonus_poor))

\* C17: for every non-negative weight configuration, max_bonus computed by
\* load_weights equals the sum over the four signal categories of the largest
\* bonus that category can award, so the bonus_score accumulated for any
\* candidate never exceeds max_bonus.
C17_MaxBonusBound ==
  run.done =>
    /\ WEIGHTS.max_bonus = LargestBonuses(WEIGHTS)
    /\ run.final.bonus_score <= WEIGHTS.max_bonus
    /\ run.debug.bonus_score <= WEIGHTS.max_bonus

\* ratio <= threshold for ratio = diff / target * 100, in exact arithmetic
RatioAtMost(diff, target, threshold) == diff * 100 <= threshold * target

\* the bonus the tiers of C18 award for a target above 0
TierBonus(target, actual, W) ==
  IF RatioAtMost(Abs(target - actual), target, W.price_threshold_10pct)
  THEN W.price_bonus_10pct
  ELSE IF RatioAtMost(Abs(target - actual), target, W.price_threshold_20pct)
  THEN W.price_bonus_20pct
  ELSE 0

\* C18: for parsed target > 0 and candidate price, with
\* ratio = |target - actual| / target * 100, the price signal awards
\* price_bonus_near when ratio <= price_threshold_near, else price_bonus_far
\* when ratio <= price_threshold_far, else 0; exactly one of these three
\* outcomes applies and the two tier bonuses are never both added.
C18_PriceTiers ==
  (/\ run.done
   /\ Truthy(probe.user_inputs.price)
   /\ ParseInt(probe.user_inputs.price.text).ok
   /\ ParseInt(probe.user_inputs.price.text).val > 0
   /\ ItemPrice(probe.item).ok) =>
    LET expected == TierBonus(ParseInt(probe.user_inputs.price.text).val,
                              ItemPrice(probe.item).val, WEIGHTS)
    IN /\ run.final.price_bonus = expected
       /\ run.debug.breakdown.price = expected
       /\ run.final.price_tier \in {"near", "far", "none"}
       /\ run.final.bonus_score = expected

\* C19: when the price hint parses to 0, the price signal awards no bonus for
\* any candidate price and any configured price thresholds.
C19_ZeroTargetNoBonus ==
  (/\ run.done
   /\ Truthy(probe.user_inputs.price)
   /\ ParseInt(probe.user_inputs.price.text).ok
   /\ ParseInt(probe.user_inputs.price.text).val = 0) =>
    /\ run.final.price_bonus = 0
    /\ run.debug.breakdown.price = 0
    /\ run.final.bonus_score = 0

\* the brand hint is supplied and its resolved token is part of the maker
HintNamesMaker(p) ==
  /\ p.user_inputs.brand.set /\ p.user_inputs.brand.text # <<>>
  /\ Contains(p.item.maker, get_official_maker_name(p.user_inputs.brand.text).text)

\* the OCR brand path of C20: the maker is part of the joined detected text,
\* or some detected token of length >= 3 is similar enough to it
OcrNamesMaker(p, W) ==
  /\ p.item.maker # <<>>
  /\ p.detected_texts # <<>>
  /\ \/ Contains(Join(p.detected_texts), p.item.maker)
     \/ \E i \in 1..Len(p.detected_texts) :
          /\ Len(p.detected_texts[i]) >= 3
          /\ AtLeast(similarity(p.detected_texts[i], p.item.maker),
                     W.similarity_threshold)

\* C20: when a brand hint is supplied and its resolved canonical token is a
\* substring of the candidate's maker field, brand_bonus is awarded by the
\* hint path and the OCR brand path is not evaluated; the OCR brand path
\* (maker substring of the joined detected text, else first detected token of
\* length >= 3 with similarity >= similarity_threshold) is evaluated only
\* when no hint was supplied or the hint did not match, and a candidate whose
\* maker field is empty never receives the brand bonus.
C20_BrandPrecedence ==
  run.done =>
    /\ HintNamesMaker(probe) =>
         /\ run.final.brand_adds = 1 /\ run.debug.brand_adds = 1
         /\ run.debug.breakdown.brand = WEIGHTS.brand_bonus
         /\ "brand:hint" \in Range(run.debug.reasons)
         /\ "brand:ocr" \notin Range(run.debug.reasons)
    /\ ~HintNamesMaker(probe) =>
         /\ run.final.brand_adds = (IF OcrNamesMaker(probe, WEIGHTS) THEN 1 ELSE 0)
         /\ run.debug.brand_adds = run.final.brand_adds
         /\ "brand:hint" \notin Range(run.debug.reasons)
         /\ "brand:ocr" \in Range(run.debug.reasons) <=> OcrNamesMaker(probe, WEIGHTS)
    /\ probe.item.maker = <<>> =>
         /\ run.final.brand_adds = 0 /\ run.debug.brand_adds = 0
         /\ run.debug.breakdown.brand = 0

\* the hint names the maker while a detected token is similar to the maker
\* without containing it: the bonus is the hint path's
C20_HintBeforeFuzzy ==
  /\ run.done
  /\ HintNamesMaker(probe)
  /\ OcrNamesMaker(probe, WEIGHTS)
  /\ ~Contains(Join(probe.detected_texts), probe.item.maker)
  /\ run.final.brand_adds = 1
  /\ "brand:ocr" \notin Range(run.debug.reasons)
  /\ WEIGHTS.brand_bonus > 0

\* overlap_count, read off the match ratio overlap / total * 100
OverlapCount(r) == r.exact + r.fuzzy_count

\* C21: in _calculate_ocr_match_score every detected token and every catalog
\* token is counted in overlap_count at most once (exact intersection first,
\* then fuzzy pairs only among tokens of length >= 3 that did not exact-match,
\* each catalog token consumed by at most one detected token), so
\* overlap_count <= min(|detected_set|, |catalog_set|) and match_ratio =
\* overlap_count / max(|detected_set|, |catalog_set|) * 100 lies in [0, 100],
\* being 0 when either set is empty.
C21_OneToOneOverlap ==
  (run.done /\ run.ocr.called) =>
    LET dset == detected_set(probe.detected_texts)
        bset == db_set(probe.item)
        long(S) == {w \in S : Len(w) >= 3}
    IN /\ run.fuzzy_count <= Min(Cardinality(long(dset \ bset)),
                                 Cardinality(long(bset \ dset)))
       /\ OverlapCount(run) <= Min(Cardinality(dset), Cardinality(bset))
       /\ \A c \in run.calls : c.caller = "ocr" => c.a \in dset \ bset /\ c.b \in bset \ dset
       /\ IF dset = {} \/ bset = {}
          THEN run.ocr.match_ratio.num = 0
          ELSE /\ run.ocr.match_ratio.num = OverlapCount(run) * 100
               /\ run.ocr.match_ratio.den = Max(Cardinality(dset), Cardinality(bset))
       /\ 0 <= run.ocr.match_ratio.num
       /\ run.ocr.match_ratio.num <= 100 * run.ocr.match_ratio.den

\* two detected tokens are both similar to the one db word left, and one of
\* them is paired with it
C21_TwoForOneWord ==
  /\ run.done /\ run.ocr.called
  /\ Cardinality(detected_set(probe.detected_texts) \ db_set(probe.item)) = 2
  /\ db_set(probe.item) = {s_abcdf}
  /\ \A d \in detected_set(probe.detected_texts) :
       AtLeast(similarity(d, s_abcdf), WEIGHTS.similarity_threshold)
  /\ run.fuzzy_count = 1
  /\ run.ocr.match_ratio = [num |-> 100, den |-> 2]

\* C22: in every call to similarity made by the brand signal, the name
\* signal and the OCR-overlap scorer, both argument strings have length >= 3;
\* a string shorter than 3 characters (detected token, maker field, candidate
\* name or catalog token) is never passed to the fuzzy matcher.
C22_NoShortStrings ==
  run.done => \A c \in run.calls : Len(c.a) >= 3 /\ Len(c.b) >= 3

\* C23: after load_weights, for every possible set of environment values,
\* all bonuses, thresholds and weights are >= 0, base_score_weight is in
\* [0, 1], and max_bonus equals the value derived from the effective
\* (post-override) weights rather than from the defaults.
C23_WeightsInvariant ==
  /\ \A k \in DOMAIN WEIGHTS : WEIGHTS[k] >= 0
  /\ WEIGHTS.base_score_weight <= 1000
  /\ WEIGHTS.max_bonus = WEIGHTS.brand_bonus + WEIGHTS.name_bonus
                           + WEIGHTS.ocr_bonus_good + WEIGHTS.price_bonus_10pct

\* C24: over any interleaving of concurrent first requests and any later
\* sequence of requests, the embedding model, the OCR engine and the index
\* connection are each constructed at most once per process, and once
\* initialization has succeeded no later call to initialize_models
\* constructs them again.
C24_SingleInitialization ==
  /\ run.built.model <= 1 /\ run.built.ocr <= 1
  /\ run.built.client <= 1 /\ run.built.collection <= 1
  /\ (model /\ ocr /\ client /\ collection) =>
       run.built = [model |-> 1, ocr |-> 1, client |-> 1, collection |-> 1]

\* two requests are past initialize_models and wait for their uploads, a
\* first attempt having failed before the model was there
C24_TwoFirstRequests ==
  /\ \A c \in Clients : pc[c] = "reading"
  /\ model /\ ocr /\ client /\ collection
  /\ run.built.model = 1 /\ run.built.collection = 1

\* C25: in every state reachable by any sequence of requests, including ones
\* in which initialize_models raised partway through, the model handle is
\* set only if the OCR engine and the collection handle are also set, so a
\* request that skips initialization because model is not None never runs
\* with a missing OCR engine or collection.
C25_AllOrNothing ==
  model => (ocr /\ collection)

\* C26: for every candidate, hints, detected text and non-negative weight
\* configuration, the score returned by calculate_score_with_debug equals the
\* score returned by calculate_final_score, and the breakdown's brand + name
\* + price + ocr values sum to the bonus_score used in that score.
C26_DebugAgrees ==
  (run.done /\ \A k \in DOMAIN WEIGHTS : WEIGHTS[k] >= 0) =>
    /\ run.debug.score = run.final.score
    /\ run.debug.bonus_score = run.final.bonus_score
    /\ run.debug.breakdown.brand + run.debug.breakdown.name
         + run.debug.breakdown.price + run.debug.breakdown.ocr
       = run.debug.bonus_score
    /\ run.debug.breakdown.ocr = run.final.ocr_bonus
    /\ run.debug.breakdown.price = run.final.price_bonus

\* the sets share no word and the lowest tier still pays: both scorers add
\* the OCR bonus next to a brand bonus
C26_PaidWithoutOverlap ==
  /\ run.done /\ run.ocr.called
  /\ run.ocr.match_ratio.num = 0 /\ ~run.ocr.sets_empty
  /\ run.final.ocr_bonus > 0
  /\ run.final.brand_adds = 1
  /\ run.debug.score = run.final.score
  /\ run.final.score.num > 0

=============================================================================
